---- MODULE Spec2Model ----
(***************************************************************************)
(* A model of the office-tool frontend: the ledger view of ProjectDetail   *)
(* (in-place editing, row saves, the add-reading preview and submit) and   *)
(* the numeric readers used by the billing calculator and the aggregator.  *)
(*                                                                         *)
(* Strings are sequences of one-character strings, so that substring       *)
(* matching, comma stripping, parseFloat, Number and toFixed are computed  *)
(* character by character as the JavaScript does.  Numbers are exact       *)
(* decimals n / 10^e, or NaN.  The sample strings denote values that an    *)
(* IEEE double holds and multiplies exactly (integers and multiples of     *)
(* 1/4), so exact decimal arithmetic agrees with the double arithmetic of  *)
(* the code on them; a cell written by toFixed(2) is re-read as the exact  *)
(* two-decimal value it shows.  The alphabet of the samples                *)
(* holds no exponent marker, no "Infinity" and no radix prefix.  Negative  *)
(* zero is not kept apart from zero: the code only formats it (toFixed and *)
(* Math.round(...).toString() print it as zero) or tests it with || and >. *)
(***************************************************************************)
EXTENDS Integers, Sequences, FiniteSets, TLC

VARIABLES
    \* ProjectDetail component state (ProjectDetail.tsx:11-30)
    history, headers, loading, modifiedRows, savingRows, showForm, formData,
    \* requests in flight and the dialogs shown to the user
    puts, posts, gets, dialogs,
    \* what the backend holds for the project's ledger
    serverRows,
    \* bookkeeping of the bounded exploration, and the last cell edit made
    nEdits, nSaves, nSubmits, nGets, lastEdit,
    \* one reading of one cell by one calculation path
    cell, path, parsed,
    \* the Aggregator's input (DashboardStats props.projects) and its result
    projects, stats,
    \* the project shown by ProjectDetail (props.project) and the paths of the
    \* GET /history requests issued so far
    project, urls,
    \* the Home page: its state, the fetchData executions under way and those
    \* that have ended
    home, calls, ended,
    \* the login form: its state and the handleAuth call under way
    auth,
    \* the dashboard page's selections: the month shown, the report columns
    page

viewVars == <<history, headers, loading, modifiedRows, savingRows, showForm, formData>>
netVars == <<puts, posts, gets, dialogs, serverRows>>
countVars == <<nEdits, nSaves, nSubmits, nGets, lastEdit>>
readVars == <<cell, path, parsed>>
aggVars == <<projects, stats>>
detailVars == <<project, urls>>
homeVars == <<home, calls, ended>>
authVars == <<auth>>
pageVars == <<page>>
sideVars == <<aggVars, detailVars, homeVars, authVars, pageVars>>
vars == <<viewVars, netVars, countVars, readVars, sideVars>>

----------------------------------------------------------------------------
(* Numbers *)

NaN == [k |-> "nan", n |-> 0, e |-> 0]

RECURSIVE Pow10(_)
Pow10(e) == IF e = 0 THEN 1 ELSE 10 * Pow10(e - 1)

\* n / 10^e with the trailing zeros of the fraction dropped
RECURSIVE Num(_, _)
Num(n, e) ==
    IF e > 0 /\ n % 10 = 0 THEN Num(n \div 10, e - 1)
    ELSE [k |-> "num", n |-> n, e |-> e]

Zero == Num(0, 0)

IsNaN(x) == x.k = "nan"

Abs(n) == IF n < 0 THEN -n ELSE n

Max(a, b) == IF a > b THEN a ELSE b

\* a - b
NumSub(a, b) ==
    IF IsNaN(a) \/ IsNaN(b) THEN NaN
    ELSE LET E == Max(a.e, b.e)
         IN Num(a.n * Pow10(E - a.e) - b.n * Pow10(E - b.e), E)

\* a * b
NumMul(a, b) ==
    IF IsNaN(a) \/ IsNaN(b) THEN NaN
    ELSE Num(a.n * b.n, a.e + b.e)

\* a > 0 (false for NaN)
NumPositive(a) == ~IsNaN(a) /\ a.n > 0

\* JavaScript truthiness of a number: NaN and 0 are falsy
NumTruthy(a) == ~IsNaN(a) /\ a.n # 0

\* x || 0 on a number
NumOrZero(a) == IF NumTruthy(a) THEN a ELSE Zero

\* Math.round: the nearest integer, a tie going towards +Infinity
MathRound(a) ==
    IF IsNaN(a) THEN NaN
    ELSE LET p == Pow10(a.e)
             ip == a.n \div p
             fr == a.n % p
         IN Num(IF 2 * fr >= p THEN ip + 1 ELSE ip, 0)

----------------------------------------------------------------------------
(* Strings *)

Digits == <<"0", "1", "2", "3", "4", "5", "6", "7", "8", "9">>

IsDigit(c) == c \in {"0", "1", "2", "3", "4", "5", "6", "7", "8", "9"}

DigitOf == [c \in {Digits[d] : d \in 1..10} |-> (CHOOSE d \in 1..10 : Digits[d] = c) - 1]

DigitVal(c) == DigitOf[c]

Lower == <<"a","b","c","d","e","f","g","h","i","j","k","l","m",
           "n","o","p","q","r","s","t","u","v","w","x","y","z">>
Upper == <<"A","B","C","D","E","F","G","H","I","J","K","L","M",
           "N","O","P","Q","R","S","T","U","V","W","X","Y","Z">>

UpperOf == [c \in {Lower[i] : i \in 1..26} |-> Upper[CHOOSE i \in 1..26 : Lower[i] = c]]
LowerOf == [c \in {Upper[i] : i \in 1..26} |-> Lower[CHOOSE i \in 1..26 : Upper[i] = c]]

UpperChar(c) == IF c \in DOMAIN UpperOf THEN UpperOf[c] ELSE c

LowerChar(c) == IF c \in DOMAIN LowerOf THEN LowerOf[c] ELSE c

\* String.prototype.toUpperCase / toLowerCase
ToUpperCase(s) == [i \in 1..Len(s) |-> UpperChar(s[i])]
ToLowerCase(s) == [i \in 1..Len(s) |-> LowerChar(s[i])]

\* String.prototype.includes
Includes(s, sub) ==
    \/ sub = <<>>
    \/ \E i \in 0..(Len(s) - Len(sub)) :
          s[i + 1] = sub[1] /\ SubSeq(s, i + 1, i + Len(sub)) = sub

\* s.replace(/,/g, '')
StripCommas(s) == SelectSeq(s, LAMBDA c : c # ",")

\* the first index from i on that holds no digit
RECURSIVE DigitsEnd(_, _)
DigitsEnd(s, i) ==
    IF i <= Len(s) /\ IsDigit(s[i]) THEN DigitsEnd(s, i + 1) ELSE i

\* the value of the digits s[i..j]
RECURSIVE IntOf(_, _, _)
IntOf(s, i, j) ==
    IF j < i THEN 0 ELSE 10 * IntOf(s, i, j - 1) + DigitVal(s[j])

RECURSIVE TrimStart(_)
TrimStart(s) == IF s # <<>> /\ s[1] = " " THEN TrimStart(Tail(s)) ELSE s

RECURSIVE TrimEnd(_)
TrimEnd(s) ==
    IF s # <<>> /\ s[Len(s)] = " " THEN TrimEnd(SubSeq(s, 1, Len(s) - 1)) ELSE s

\* The longest decimal literal that starts s (after optional sign):
\* its value and the index after it.
ScanDecimal(t) ==
    LET neg == t # <<>> /\ t[1] = "-"
        p0 == IF t # <<>> /\ t[1] \in {"+", "-"} THEN 2 ELSE 1
        p1 == DigitsEnd(t, p0)
        hasDot == p1 <= Len(t) /\ t[p1] = "."
        p2 == IF hasDot THEN DigitsEnd(t, p1 + 1) ELSE p1
        nFrac == IF hasDot THEN p2 - (p1 + 1) ELSE 0
        nInt == p1 - p0
        mag == IntOf(t, p0, p1 - 1) * Pow10(nFrac) + IntOf(t, p1 + 1, p2 - 1)
    IN IF nInt + nFrac = 0
       THEN [val |-> NaN, end |-> p0]
       ELSE [val |-> Num(IF neg THEN -mag ELSE mag, nFrac),
             end |-> IF hasDot THEN p2 ELSE p1]

\* parseFloat(string): leading blanks skipped, the longest numeric prefix read,
\* NaN when there is none
ParseFloat(s) == ScanDecimal(TrimStart(s)).val

\* Number(string): blanks trimmed on both sides, "" is 0, and the whole of the
\* rest must be one numeric literal
StringToNumber(s) ==
    LET t == TrimEnd(TrimStart(s))
        r == ScanDecimal(t)
    IN IF t = <<>> THEN Zero
       ELSE IF ~IsNaN(r.val) /\ r.end = Len(t) + 1 THEN r.val
       ELSE NaN

\* the decimal digits of a natural number
RECURSIVE NatToString(_)
NatToString(n) ==
    IF n < 10 THEN <<Digits[n + 1]>>
    ELSE NatToString(n \div 10) \o <<Digits[(n % 10) + 1]>>

S_NaN == <<"N","a","N">>

\* Number.prototype.toFixed(2): two decimals, a tie rounded away from zero,
\* the sign kept when the number is below zero
ToFixed2(a) ==
    IF IsNaN(a) THEN S_NaN
    ELSE LET m == Abs(a.n)
             p == Pow10(a.e)
             ip == m \div p
             fr == m % p
             \* hundredths of the fraction, rounded half up
             h == IF a.e <= 2 THEN fr * Pow10(2 - a.e)
                  ELSE (2 * fr + Pow10(a.e - 2)) \div (2 * Pow10(a.e - 2))
             ip2 == IF h = 100 THEN ip + 1 ELSE ip
             h2 == IF h = 100 THEN 0 ELSE h
         IN (IF a.n < 0 THEN <<"-">> ELSE <<>>)
            \o NatToString(ip2) \o <<".">>
            \o <<Digits[(h2 \div 10) + 1], Digits[(h2 % 10) + 1]>>

\* Number.prototype.toString() of an integer or NaN
IntToString(a) ==
    IF IsNaN(a) THEN S_NaN
    ELSE (IF a.n < 0 THEN <<"-">> ELSE <<>>) \o NatToString(Abs(a.n))

----------------------------------------------------------------------------
(* Ledger rows and the in-place edit (ProjectDetail.tsx:115-181) *)

\* the value of a missing key
Undefined == <<"undefined">>

\* JavaScript truthiness of a cell or key: undefined and "" are falsy
Truthy(v) == v # Undefined /\ v # <<>>

\* row[k]
Get(row, k) == IF k \in DOMAIN row THEN row[k] ELSE Undefined

\* { ...row, [k]: v }, and row[k] = v
RowSet(row, k, v) == [x \in (DOMAIN row) \cup {k} |-> IF x = k THEN v ELSE row[x]]

\* the phrases handleCellChange looks for (ProjectDetail.tsx:122-135, 159, 185)
K_MF == <<"M","F">>
K_RATE == <<"R","A","T","E">>
K_TARIFF == <<"T","A","R","I","F","F">>
K_EXP_CURR == <<"E","X","P","O","R","T"," ","-"," ","C","U","R","R","E","N","T">>
K_EXP_PREV == <<"E","X","P","O","R","T"," ","-"," ","P","R","E","V","I","O","U","S">>
K_EXP_DIFF == <<"E","X","P","O","R","T"," ","-"," ","D","I","F","F","E","R","E","N","C","E">>
K_EXP_KWH == <<"E","X","P","O","R","T"," ","-"," ","K","W","H">>
K_IMP_CURR == <<"I","M","P","O","R","T"," ","-"," ","C","U","R","R","E","N","T">>
K_IMP_PREV == <<"I","M","P","O","R","T"," ","-"," ","P","R","E","V","I","O","U","S">>
K_IMP_DIFF == <<"I","M","P","O","R","T"," ","-"," ","D","I","F","F","E","R","E","N","C","E">>
K_IMP_KWH == <<"I","M","P","O","R","T"," ","-"," ","K","W","H">>
K_NET == <<"N","E","T">>
K_BILL == <<"B","I","L","L"," ","A","M","O","U","N","T">>
K_MONTH == <<"M","O","N","T","H">>

\* headers.find(h => h.toUpperCase().includes(sub)): the first header in column
\* order that contains sub, undefined when none does
FindKey(hs, sub) ==
    LET hits == {i \in 1..Len(hs) : Includes(ToUpperCase(hs[i]), sub)}
    IN IF hits = {} THEN Undefined
       ELSE hs[CHOOSE i \in hits : \A j \in hits : i <= j]

\* the keys handleCellChange resolves on every call (ProjectDetail.tsx:120-135, 159)
ResolveKeys(hs) ==
    [kMF |-> FindKey(hs, K_MF),
     kRate |-> IF Truthy(FindKey(hs, K_RATE)) THEN FindKey(hs, K_RATE)
               ELSE FindKey(hs, K_TARIFF),
     kExpCurr |-> FindKey(hs, K_EXP_CURR),
     kExpPrev |-> FindKey(hs, K_EXP_PREV),
     kExpDiff |-> FindKey(hs, K_EXP_DIFF),
     kExpKWH |-> FindKey(hs, K_EXP_KWH),
     kImpCurr |-> FindKey(hs, K_IMP_CURR),
     kImpPrev |-> FindKey(hs, K_IMP_PREV),
     kImpDiff |-> FindKey(hs, K_IMP_DIFF),
     kImpKWH |-> FindKey(hs, K_IMP_KWH),
     kNet |-> FindKey(hs, K_NET),
     kBill |-> FindKey(hs, K_BILL)]

\* val(k): 0 for an unresolved key, else parseFloat of the comma-free cell, || 0
Val(row, k) ==
    IF ~Truthy(k) THEN Zero
    ELSE LET c == Get(row, k)
         IN NumOrZero(ParseFloat(StripCommas(IF Truthy(c) THEN c ELSE <<"0">>)))

\* parseFloat(String(row[k]).replace(/,/g, '')), with no default
RawUnits(row, k) == ParseFloat(StripCommas(Get(row, k)))

\* Export Side with the kWh written without the meter factor
ExportSide_NoMF(k, row, mf) ==
    LET diff == NumSub(Val(row, k.kExpCurr), Val(row, k.kExpPrev))
    IN IF Truthy(k.kExpCurr) /\ Truthy(k.kExpPrev) /\ Truthy(k.kExpDiff)
          /\ Truthy(k.kExpKWH)
       THEN RowSet(RowSet(row, k.kExpDiff, ToFixed2(diff)),
                   k.kExpKWH, ToFixed2(diff))
       ELSE row

\* the Export Side block (ProjectDetail.tsx:149-154)
ExportSide(k, row, mf) ==
    LET diff == NumSub(Val(row, k.kExpCurr), Val(row, k.kExpPrev))
    IN IF Truthy(k.kExpCurr) /\ Truthy(k.kExpPrev) /\ Truthy(k.kExpDiff)
          /\ Truthy(k.kExpKWH)
       THEN RowSet(RowSet(row, k.kExpDiff, ToFixed2(diff)),
                   k.kExpKWH, ToFixed2(NumMul(diff, mf)))
       ELSE row

\* the Import Side block (ProjectDetail.tsx:156-162)
ImportSide(k, row, mf) ==
    LET diff == NumSub(Val(row, k.kImpCurr), Val(row, k.kImpPrev))
        r1 == IF Truthy(k.kImpDiff) THEN RowSet(row, k.kImpDiff, ToFixed2(diff))
              ELSE row
    IN IF Truthy(k.kImpCurr) /\ Truthy(k.kImpPrev) /\ Truthy(k.kImpKWH)
       THEN RowSet(r1, k.kImpKWH, ToFixed2(NumMul(diff, mf)))
       ELSE row

\* Net & Bill with the import units added instead of subtracted
NetAndBill_Sum(k, row, rate) ==
    LET net == NumSub(RawUnits(row, k.kExpKWH),
                      NumSub(Zero, RawUnits(row, k.kImpKWH)))
    IN IF Truthy(k.kExpKWH) /\ Truthy(k.kImpKWH) /\ Truthy(k.kNet) /\ Truthy(k.kBill)
       THEN RowSet(RowSet(row, k.kNet, ToFixed2(net)),
                   k.kBill, IntToString(MathRound(NumMul(net, rate))))
       ELSE row

\* the Net & Bill block (ProjectDetail.tsx:164-172)
NetAndBill(k, row, rate) ==
    LET net == NumSub(RawUnits(row, k.kExpKWH), RawUnits(row, k.kImpKWH))
    IN IF Truthy(k.kExpKWH) /\ Truthy(k.kImpKWH) /\ Truthy(k.kNet) /\ Truthy(k.kBill)
       THEN RowSet(RowSet(row, k.kNet, ToFixed2(net)),
                   k.kBill, IntToString(MathRound(NumMul(net, rate))))
       ELSE row

\* a recalculation triggered by the previous readings as well
Triggers_PreviousToo(k, header) ==
    /\ Truthy(k.kMF)
    /\ Truthy(k.kRate)
    /\ header \in {k.kExpCurr, k.kImpCurr, k.kMF, k.kRate, k.kExpPrev, k.kImpPrev}

\* whether an edit of `header` triggers the recalculation (ProjectDetail.tsx:144)
Triggers(k, header) ==
    /\ Truthy(k.kMF)
    /\ Truthy(k.kRate)
    /\ header \in {k.kExpCurr, k.kImpCurr, k.kMF, k.kRate}

\* the row handleCellChange stores for an edit of row[header] to value
\* (ProjectDetail.tsx:117-176); nothing in the try block can throw
EditRow(hs, row0, header, value) ==
    LET k == ResolveKeys(hs)
        row == RowSet(row0, header, value)
        mf == Val(row, k.kMF)
        rate == Val(row, k.kRate)
    IN IF Triggers(k, header)
       THEN NetAndBill(k, ImportSide(k, ExportSide(k, row, mf), mf), rate)
       ELSE row

----------------------------------------------------------------------------
(* The new-reading preview (ProjectDetail.tsx:62-111) *)

\* whether the meter-factor cell (the column at index 1) of a row is valid:
\* !isNaN(parseFloat(val)) && parseFloat(val) > 0 on the comma-free cell
ValidMF(hs, row) ==
    LET mfKey == hs[2]
        c == Get(row, mfKey)
        val == StripCommas(IF Truthy(c) THEN c ELSE <<>>)
    IN Truthy(mfKey) /\ ~IsNaN(ParseFloat(val)) /\ NumPositive(ParseFloat(val))

\* a scan that returns the first valid row instead of the last
ScanBack_Forward(hist, hs, i) ==
    LET valid == {j \in 1..i : ValidMF(hs, hist[j])}
    IN IF valid = {} THEN 0 ELSE CHOOSE j \in valid : \A m \in valid : j <= m

\* the backward scan from index i (1-based), 0 when it finds no row
RECURSIVE ScanBack(_, _, _)
ScanBack(hist, hs, i) ==
    IF i = 0 THEN 0
    ELSE IF ValidMF(hs, hist[i]) THEN i
    ELSE ScanBack(hist, hs, i - 1)

\* the index of lastValidRow, 0 standing for null
LastValidIndex(hist, hs) ==
    IF Len(hist) = 0 \/ Len(hs) < 2 THEN 0 ELSE ScanBack(hist, hs, Len(hist))

\* whether liveStats is not null
HasLiveStats(hist, hs) == LastValidIndex(hist, hs) # 0 /\ Len(hs) >= 12

\* getVal(idx) on lastValidRow: no default for a cell that does not parse
GetVal(hs, row, idx) ==
    LET key == IF idx + 1 <= Len(hs) THEN hs[idx + 1] ELSE Undefined
        c == Get(row, key)
    IN IF ~Truthy(key) THEN Zero
       ELSE ParseFloat(StripCommas(IF Truthy(c) THEN c ELSE <<"0">>))

\* liveStats when it is not null
LiveStats(hist, hs, form) ==
    LET row == hist[LastValidIndex(hist, hs)]
        mf == GetVal(hs, row, 1)
        prevExport == GetVal(hs, row, 3)
        prevImport == GetVal(hs, row, 7)
        rate == GetVal(hs, row, 11)
        currExport == NumOrZero(ParseFloat(form.current_export))
        currImport == NumOrZero(ParseFloat(form.current_import))
        diffExport == NumSub(currExport, prevExport)
        kwhExport == NumMul(diffExport, mf)
        diffImport == NumSub(currImport, prevImport)
        kwhImport == NumMul(diffImport, mf)
        netExport == NumSub(kwhExport, kwhImport)
        bill == NumMul(netExport, rate)
    IN [mf |-> mf, prevExport |-> prevExport, prevImport |-> prevImport,
        rate |-> rate, currExport |-> currExport, currImport |-> currImport,
        diffExport |-> diffExport, kwhExport |-> kwhExport,
        diffImport |-> diffImport, kwhImport |-> kwhImport,
        netExport |-> netExport, bill |-> bill]

\* the amount the preview panel shows: Math.round(liveStats.bill)
PreviewBill(hist, hs, form) == MathRound(LiveStats(hist, hs, form).bill)

\* what the Live Calculation Preview panel renders (ProjectDetail.tsx:341-367)
PreviewPanel(hist, hs) ==
    IF HasLiveStats(hist, hs) THEN "stats"
    ELSE "Could not find previous data row to base calculations on."

\* the amount in the confirmation of handleAddNewSubmit:
\* Math.round(liveStats?.bill || 0)
ConfirmAmount(hist, hs, form) ==
    IntToString(MathRound(
        IF HasLiveStats(hist, hs) THEN NumOrZero(LiveStats(hist, hs, form).bill)
        ELSE Zero))

----------------------------------------------------------------------------
(* Sample ledgers: what GET /history may return *)

\* column names
H_MONTH == <<"M","O","N","T","H">>
H_MF == <<"M","F">>
H_EXP_PREV == <<"E","X","P","O","R","T"," ","-"," ","P","R","E","V","I","O","U","S">>
H_EXP_CURR == <<"E","X","P","O","R","T"," ","-"," ","C","U","R","R","E","N","T">>
H_EXP_DIFF == <<"E","X","P","O","R","T"," ","-"," ","D","I","F","F","E","R","E","N","C","E">>
H_EXP_KWH == <<"E","X","P","O","R","T"," ","-"," ","K","W","H">>
H_IMP_PREV == <<"I","M","P","O","R","T"," ","-"," ","P","R","E","V","I","O","U","S">>
H_IMP_CURR == <<"I","M","P","O","R","T"," ","-"," ","C","U","R","R","E","N","T">>
H_IMP_DIFF == <<"I","M","P","O","R","T"," ","-"," ","D","I","F","F","E","R","E","N","C","E">>
H_IMP_KWH == <<"I","M","P","O","R","T"," ","-"," ","K","W","H">>
H_NET == <<"N","E","T"," ","U","N","I","T","S">>
H_RATE == <<"R","A","T","E">>
H_BILL == <<"B","I","L","L"," ","A","M","O","U","N","T">>
H_TARIFF == <<"T","a","r","i","f","f"," ","(","R","s",")">>

\* cell contents
V_EMPTY == <<>>
V_ABC == <<"a","b","c">>
V_0 == <<"0">>
V_5 == <<"5">>
V_NEG5 == <<"-","5">>
V_10 == <<"1","0">>
V_50 == <<"5","0">>
V_100 == <<"1","0","0">>
V_150 == <<"1","5","0">>
V_1000C == <<"1",",","0","0","0">>
V_HALF == <<"0",".","5">>
V_QUARTER == <<"0",".","2","5">>
V_50F == <<"5","0",".","0","0">>
V_0F == <<"0",".","0","0">>
V_50000F == <<"5","0","0","0","0",".","0","0">>
V_250000 == <<"2","5","0","0","0","0">>
V_12345C == <<"1","2",",","3","4","5",".","5","0">>
M_APR == <<"A","p","r">>
M_MAY == <<"M","a","y">>
M_JUN == <<"J","u","n">>

Range(s) == {s[i] : i \in 1..Len(s)}

IndexOf(s, x) == CHOOSE i \in 1..Len(s) : s[i] = x

\* the full column layout: MF at index 1, the current export at 3, the current
\* import at 7 and the rate at 11, the indices liveStats reads
HFull == <<H_MONTH, H_MF, H_EXP_PREV, H_EXP_CURR, H_EXP_DIFF, H_EXP_KWH,
           H_IMP_PREV, H_IMP_CURR, H_IMP_DIFF, H_IMP_KWH, H_NET, H_RATE, H_BILL>>

Without(hs, h) == SelectSeq(hs, LAMBDA x : x # h)

\* layouts that lack one recognised column, name the rate column "Tariff (Rs)",
\* or are too short for the preview
HNoImpDiff == Without(HFull, H_IMP_DIFF)
HNoExpPrev == Without(HFull, H_EXP_PREV)
HNoExpDiff == Without(HFull, H_EXP_DIFF)
HTariff == [i \in 1..Len(HFull) |-> IF HFull[i] = H_RATE THEN H_TARIFF ELSE HFull[i]]
HShort == <<H_MONTH, H_MF, H_EXP_CURR>>
HOne == <<H_MONTH>>

HeaderVariants == {HFull, HNoImpDiff, HNoExpPrev, HNoExpDiff, HTariff, HShort, HOne}

\* a row given by its cells in the order of HFull; "Tariff (Rs)" holds the rate
Src(vals) ==
    [h \in Range(HFull) \cup {H_TARIFF} |->
        IF h = H_TARIFF THEN vals[IndexOf(HFull, H_RATE)] ELSE vals[IndexOf(HFull, h)]]

\* a billed month: MF 1,000, export 50 -> 100, import 10 -> 10, rate 5
ROld == Src(<<M_APR, V_1000C, V_50, V_100, V_50F, V_50000F,
              V_10, V_10, V_0F, V_0F, V_50000F, V_5, V_250000>>)

\* the next month, its current export not yet entered
RNew == Src(<<M_MAY, V_1000C, V_100, V_EMPTY, V_EMPTY, V_EMPTY,
              V_10, V_10, V_EMPTY, V_EMPTY, V_EMPTY, V_5, V_EMPTY>>)

\* rows without a usable meter factor: not numeric, zero, negative
RBad == Src(<<M_JUN, V_ABC, V_EMPTY, V_EMPTY, V_EMPTY, V_EMPTY,
              V_EMPTY, V_EMPTY, V_EMPTY, V_EMPTY, V_EMPTY, V_EMPTY, V_EMPTY>>)

RZero == Src(<<M_MAY, V_0, V_100, V_EMPTY, V_EMPTY, V_EMPTY,
               V_10, V_10, V_EMPTY, V_EMPTY, V_EMPTY, V_5, V_EMPTY>>)

RNeg == Src(<<M_MAY, V_NEG5, V_100, V_150, V_EMPTY, V_EMPTY,
              V_10, V_10, V_EMPTY, V_EMPTY, V_EMPTY, V_5, V_EMPTY>>)

\* fractional meter factor and readings
RFrac == Src(<<M_JUN, V_HALF, V_0, V_EMPTY, V_EMPTY, V_EMPTY,
               V_QUARTER, V_0, V_EMPTY, V_EMPTY, V_EMPTY, V_1000C, V_EMPTY>>)

L_TwoValid == <<ROld, RNew>>
L_LastZero == <<ROld, RZero>>
L_NoneValid == <<RNeg, RBad>>
L_Fraction == <<RFrac>>

\* the loaded ledgers explored: each sample under the full layout, and the
\* other layouts with the two-month ledger
SampleViews ==
    {<<HFull, L>> : L \in {L_TwoValid, L_LastZero, L_NoneValid, L_Fraction}}
    \cup {<<hs, L_TwoValid>> : hs \in HeaderVariants}
    \cup {<<HNoImpDiff, L_Fraction>>}

\* the rows of a sample ledger under a column layout
Ledger(hs, rows) == [i \in 1..Len(rows) |-> [h \in Range(hs) |-> rows[i][h]]]

----------------------------------------------------------------------------
(* Bounds of the exploration *)

\* cell edits along one run of the edit specification
MaxEdits == 1
\* cell edits, saveRow calls and form submissions along one run of the ledger view
MaxLedgerEdits == 2
MaxSaves == 2
MaxSubmits == 1
\* further calls of fetchHistory after the one at mount
MaxReloads == 1
\* length of the generated cell strings read by the calculation paths
MaxReadLen == 3

----------------------------------------------------------------------------
(* The component's handlers (ProjectDetail.tsx) *)

S_TODAY == <<"t","o","d","a","y">>

\* the initial and the reset formData (ProjectDetail.tsx:21-30, 221-225)
EmptyForm ==
    [date |-> S_TODAY, current_export |-> <<>>, current_import |-> <<>>,
     power_factor |-> <<>>, invoice_no |-> <<>>, invoice_date |-> <<>>,
     submission_date |-> <<>>, verify_date |-> <<>>]

NoDialog == [kind |-> "none", msg |-> "", amount |-> <<>>]
NoEdit == [row |-> 0, header |-> <<>>, value |-> <<>>]

\* handleCellChange(rowIndex, header, value) (ProjectDetail.tsx:115-181)
HandleCellChange(rowIndex, header, value) ==
    /\ history' = [history EXCEPT
                     ![rowIndex] = EditRow(headers, history[rowIndex], header, value)]
    /\ modifiedRows' = modifiedRows \cup {rowIndex}
    /\ UNCHANGED <<headers, loading, savingRows, showForm, formData>>
    /\ UNCHANGED <<netVars, nSaves, nSubmits, nGets, readVars, sideVars>>

\* a request that carries the row as the backend last had it
PutRequest_Persisted(rowIndex) ==
    [id |-> nSaves, row |-> rowIndex, body |-> serverRows[rowIndex],
     month |-> Get(serverRows[rowIndex], K_MONTH),
     modifiedRows |-> modifiedRows, savingRows |-> savingRows]

\* the request saveRow(rowIndex) sends, with the modifiedRows and savingRows of
\* the render whose closure runs after the await (ProjectDetail.tsx:184-193)
PutRequest(rowIndex) ==
    LET row == history[rowIndex]
    IN [id |-> nSaves, row |-> rowIndex, body |-> row,
        month |-> IF Truthy(Get(row, K_MONTH)) THEN Get(row, K_MONTH)
                  ELSE Get(row, headers[1]),
        modifiedRows |-> modifiedRows, savingRows |-> savingRows]

\* saveRow(rowIndex) up to its await: the SAVE button is rendered for a modified
\* row and disabled while the row is in savingRows (ProjectDetail.tsx:289-297)
SaveRow(rowIndex) ==
    /\ ~loading
    /\ rowIndex \in modifiedRows
    /\ rowIndex \notin savingRows
    /\ nSaves < MaxSaves
    /\ savingRows' = savingRows \cup {rowIndex}
    /\ puts' = puts \cup {PutRequest(rowIndex)}
    /\ nSaves' = nSaves + 1
    /\ UNCHANGED <<history, headers, loading, modifiedRows, showForm, formData>>
    /\ UNCHANGED <<posts, gets, dialogs, serverRows, nEdits, nSubmits, nGets, lastEdit, readVars, sideVars>>

\* modifiedRows after a successful save: new Set(modifiedRows) of the closure,
\* minus the row (ProjectDetail.tsx:195-197)
ModifiedAfterSave(r) == r.modifiedRows \ {r.row}

\* savingRows after a save ends: new Set(savingRows) of the closure, minus the
\* row (ProjectDetail.tsx:201-205)
SavingAfterSave(r) == r.savingRows \ {r.row}

\* the backend's ledger after PUT /update-row of a row
ServerUpdate(rows, r) ==
    IF r.row \in 1..Len(rows) THEN [rows EXCEPT ![r.row] = r.body] ELSE rows

\* the PUT resolves (ProjectDetail.tsx:195-198, 201-205)
SaveOk(r) ==
    /\ r \in puts
    /\ puts' = puts \ {r}
    /\ serverRows' = ServerUpdate(serverRows, r)
    /\ modifiedRows' = ModifiedAfterSave(r)
    /\ savingRows' = SavingAfterSave(r)
    /\ dialogs' = [kind |-> "alert", msg |-> "Saved successfully!", amount |-> <<>>]
    /\ UNCHANGED <<history, headers, loading, showForm, formData>>
    /\ UNCHANGED <<posts, gets, countVars, readVars, sideVars>>

\* the PUT rejects (ProjectDetail.tsx:199-205)
SaveFail(r) ==
    /\ r \in puts
    /\ puts' = puts \ {r}
    /\ savingRows' = SavingAfterSave(r)
    /\ dialogs' = [kind |-> "alert", msg |-> "Failed to save", amount |-> <<>>]
    /\ UNCHANGED <<history, headers, loading, modifiedRows, showForm, formData>>
    /\ UNCHANGED <<posts, gets, serverRows, countVars, readVars, sideVars>>

\* the "Add Latest Month" button and the modal's close button
\* (ProjectDetail.tsx:245, 332)
OpenForm ==
    /\ ~showForm
    /\ showForm' = TRUE
    /\ UNCHANGED <<history, headers, loading, modifiedRows, savingRows, formData>>
    /\ UNCHANGED <<netVars, countVars, readVars, sideVars>>

CloseForm ==
    /\ showForm
    /\ showForm' = FALSE
    /\ UNCHANGED <<history, headers, loading, modifiedRows, savingRows, formData>>
    /\ UNCHANGED <<netVars, countVars, readVars, sideVars>>

\* what the user types into the modal's reading inputs
FormInputs ==
    {[field |-> "current_export", value |-> V_150],
     [field |-> "current_import", value |-> V_10]}

\* setFormData({...formData, [field]: value}) (ProjectDetail.tsx:383-389)
SetFormData(in) ==
    /\ showForm
    /\ formData' = [formData EXCEPT ![in.field] = in.value]
    /\ formData' # formData
    /\ UNCHANGED <<history, headers, loading, modifiedRows, savingRows, showForm>>
    /\ UNCHANGED <<netVars, countVars, readVars, sideVars>>

\* the confirmation handleAddNewSubmit shows (ProjectDetail.tsx:210)
ConfirmDialog ==
    [kind |-> "confirm", msg |-> "Generate Bill for amount",
     amount |-> ConfirmAmount(history, headers, formData)]

\* the form is submitted only with its required inputs filled
\* (ProjectDetail.tsx:378, 383, 388)
CanSubmit ==
    /\ showForm
    /\ formData.date # <<>>
    /\ formData.current_export # <<>>
    /\ formData.current_import # <<>>
    /\ nSubmits < MaxSubmits

\* handleAddNewSubmit, the user declining the confirmation (ProjectDetail.tsx:210)
SubmitDeclined ==
    /\ CanSubmit
    /\ dialogs' = ConfirmDialog
    /\ nSubmits' = nSubmits + 1
    /\ UNCHANGED <<viewVars, puts, posts, gets, serverRows>>
    /\ UNCHANGED <<nEdits, nSaves, nGets, lastEdit, readVars, sideVars>>

\* handleAddNewSubmit up to its await: POST /add-reading with the form
\* (ProjectDetail.tsx:210-218)
SubmitConfirmed ==
    /\ CanSubmit
    /\ dialogs' = ConfirmDialog
    /\ posts' = posts \cup {[id |-> nSubmits, form |-> formData]}
    /\ nSubmits' = nSubmits + 1
    /\ UNCHANGED <<viewVars, puts, gets, serverRows>>
    /\ UNCHANGED <<nEdits, nSaves, nGets, lastEdit, readVars, sideVars>>

\* the row the backend appends for a new reading: the next month with the
\* submitted current readings
ServerAdd(rows, form) ==
    Append(rows, [Ledger(HFull, <<RNew>>)[1] EXCEPT
                     ![H_EXP_CURR] = form.current_export,
                     ![H_IMP_CURR] = form.current_import])

\* the POST resolves: alert, close and reset the form, fetchHistory()
\* (ProjectDetail.tsx:219-226, 46-49)
AddOk(p) ==
    /\ p \in posts
    /\ posts' = posts \ {p}
    /\ serverRows' = ServerAdd(serverRows, p.form)
    /\ dialogs' = [kind |-> "alert", msg |-> "Added successfully!", amount |-> <<>>]
    /\ showForm' = FALSE
    /\ formData' = EmptyForm
    /\ loading' = TRUE
    /\ gets' = gets \cup {[id |-> nGets]}
    /\ nGets' = nGets + 1
    /\ UNCHANGED <<history, headers, modifiedRows, savingRows>>
    /\ UNCHANGED <<puts, nEdits, nSaves, nSubmits, lastEdit, readVars, sideVars>>

\* a failed POST that closes the modal all the same
AddFail_ClosesForm(p) ==
    /\ p \in posts
    /\ posts' = posts \ {p}
    /\ dialogs' = [kind |-> "alert", msg |-> "Error", amount |-> <<>>]
    /\ showForm' = FALSE
    /\ UNCHANGED <<history, headers, loading, modifiedRows, savingRows, formData>>
    /\ UNCHANGED <<puts, gets, serverRows, countVars, readVars, sideVars>>

\* the POST rejects (ProjectDetail.tsx:227-229)
AddFail(p) ==
    /\ p \in posts
    /\ posts' = posts \ {p}
    /\ dialogs' = [kind |-> "alert", msg |-> "Error", amount |-> <<>>]
    /\ UNCHANGED <<viewVars, puts, gets, serverRows, countVars, readVars, sideVars>>

\* the column names the backend returns with the ledger
ServerHeaders == HFull

\* fetchHistory() up to its await, as its callers run it: the project effect
\* and a successful add-reading (ProjectDetail.tsx:42-49, 226)
FetchHistory ==
    /\ nGets <= MaxReloads
    /\ loading' = TRUE
    /\ gets' = gets \cup {[id |-> nGets]}
    /\ nGets' = nGets + 1
    /\ UNCHANGED <<history, headers, modifiedRows, savingRows, showForm, formData>>
    /\ UNCHANGED <<puts, posts, dialogs, serverRows>>
    /\ UNCHANGED <<nEdits, nSaves, nSubmits, lastEdit, readVars, sideVars>>

\* GET /history resolves with data (ProjectDetail.tsx:49-54, 57-59)
HistoryOk(g) ==
    /\ g \in gets
    /\ gets' = gets \ {g}
    /\ history' = serverRows
    /\ headers' = ServerHeaders
    /\ modifiedRows' = {}
    /\ loading' = FALSE
    /\ UNCHANGED <<savingRows, showForm, formData>>
    /\ UNCHANGED <<puts, posts, dialogs, serverRows, countVars, readVars, sideVars>>

\* GET /history resolves without data, or rejects (ProjectDetail.tsx:50, 55-59)
HistoryEmptyOrFail(g) ==
    /\ g \in gets
    /\ gets' = gets \ {g}
    /\ loading' = FALSE
    /\ UNCHANGED <<history, headers, modifiedRows, savingRows, showForm, formData>>
    /\ UNCHANGED <<puts, posts, dialogs, serverRows, countVars, readVars, sideVars>>

----------------------------------------------------------------------------
(* One cell read by each calculation path *)

\* the preview's getVal on a row whose cells all hold c (ProjectDetail.tsx:86-90)
PreviewRead(c) == GetVal(HFull, [h \in Range(HFull) |-> c], 1)

\* the in-place edit's val on the cell (ProjectDetail.tsx:138-141)
EditRead(c) == Val([h \in {H_MF} |-> c], H_MF)

\* the Aggregator's Number(p[col] || 0) (DashboardStats.tsx:46-47, 76)
AggregatorRead(c) == IF Truthy(c) THEN StringToNumber(c) ELSE Zero

ReadAlphabet == {"1", "5", ",", ".", "a", "-"}

\* every string over the alphabet up to the length bound, and the spec's example
ReadSamples ==
    UNION {[1..n -> ReadAlphabet] : n \in 0..MaxReadLen} \cup {V_12345C}

ReadPreview ==
    /\ path = "none"
    /\ path' = "getVal"
    /\ parsed' = PreviewRead(cell)
    /\ UNCHANGED <<viewVars, netVars, countVars, cell, sideVars>>

ReadEdit ==
    /\ path = "none"
    /\ path' = "val"
    /\ parsed' = EditRead(cell)
    /\ UNCHANGED <<viewVars, netVars, countVars, cell, sideVars>>

ReadAggregator ==
    /\ path = "none"
    /\ path' = "aggregator"
    /\ parsed' = AggregatorRead(cell)
    /\ UNCHANGED <<viewVars, netVars, countVars, cell, sideVars>>

----------------------------------------------------------------------------
(* Specifications *)

\* the dashboard not yet given any record
NoProjects == [cols |-> <<>>, rows |-> <<>>]
NoStats == [computed |-> FALSE]

IdleAgg ==
    /\ projects = NoProjects /\ stats = NoStats

\* no project selected (ProjectDetail.tsx:35)
NoProject == [keys |-> <<>>, vals |-> <<>>]

IdleDetail ==
    /\ project = NoProject /\ urls = <<>>

\* the Home page before its first fetchData (page.tsx:284-290)
NoHome == [variant |-> "none", stats |-> 0, projects |-> 0, columns |-> 0,
           status |-> "", loading |-> FALSE]

IdleHome ==
    /\ home = NoHome /\ calls = {} /\ ended = {}

\* no login form on the screen
NoAuth == [form |-> "none"]

IdleAuth ==
    /\ auth = NoAuth

\* the dashboard page is not on the screen
NoPage == [view |-> "none"]

IdlePage ==
    /\ page = NoPage

IdleSide ==
    /\ IdleAgg /\ IdleDetail /\ IdleHome /\ IdleAuth /\ IdlePage

IdleNet ==
    /\ puts = {} /\ posts = {} /\ gets = {} /\ dialogs = NoDialog

IdleCounts ==
    /\ nEdits = 0 /\ nSaves = 0 /\ nSubmits = 0 /\ nGets = 0 /\ lastEdit = NoEdit

IdleCell ==
    /\ cell = <<>> /\ path = "none" /\ parsed = Zero

IdleRead ==
    /\ IdleCell
    /\ IdleSide

\* The ledger view from its mount: the effect has issued the first GET /history
\* (ProjectDetail.tsx:11-30, 42-47)
LedgerViewSamples == {L_TwoValid, L_NoneValid}

Init ==
    /\ history = <<>> /\ headers = <<>> /\ loading = TRUE
    /\ modifiedRows = {} /\ savingRows = {}
    /\ showForm = FALSE /\ formData = EmptyForm
    /\ puts = {} /\ posts = {} /\ gets = {[id |-> 0]} /\ dialogs = NoDialog
    /\ serverRows \in {Ledger(ServerHeaders, L) : L \in LedgerViewSamples}
    /\ nEdits = 0 /\ nSaves = 0 /\ nSubmits = 0 /\ nGets = 1 /\ lastEdit = NoEdit
    /\ IdleRead

\* the cells a user edits in the ledger view, and what is typed
LedgerEditHeaders == {H_EXP_CURR}
LedgerEditValues == {V_150, V_0}

\* an edit of a cell of the rendered table (ProjectDetail.tsx:270-273, 300-305)
LedgerEdit ==
    /\ ~loading
    /\ nEdits < MaxLedgerEdits
    /\ \E i \in 1..Len(history), h \in LedgerEditHeaders \cap Range(headers),
          v \in LedgerEditValues :
          HandleCellChange(i, h, v)
    /\ nEdits' = nEdits + 1
    /\ UNCHANGED lastEdit

\* the ledger table: loading, editing and saving rows
Next ==
    \/ LedgerEdit
    \/ \E i \in 1..Len(history) : SaveRow(i)
    \/ \E r \in puts : SaveOk(r)
    \/ \E r \in puts : SaveFail(r)
    \/ FetchHistory
    \/ \E g \in gets : HistoryOk(g)
    \/ \E g \in gets : HistoryEmptyOrFail(g)

Spec == Init /\ [][Next]_vars

\* the add-reading modal over the ledger table
NextAdd ==
    \/ LedgerEdit
    \/ OpenForm
    \/ CloseForm
    \/ \E in \in FormInputs : SetFormData(in)
    \/ SubmitDeclined
    \/ SubmitConfirmed
    \/ \E p \in posts : AddOk(p)
    \/ \E p \in posts : AddFail(p)
    \/ \E g \in gets : HistoryOk(g)
    \/ \E g \in gets : HistoryEmptyOrFail(g)

SpecAdd == Init /\ [][NextAdd]_vars

\* A loaded ledger under each column layout, edited in place
FilledForm == [EmptyForm EXCEPT !.current_export = V_150, !.current_import = V_10]

InitEdit ==
    /\ \E v \in SampleViews :
          /\ headers = v[1]
          /\ history = Ledger(v[1], v[2])
          /\ serverRows = Ledger(v[1], v[2])
    /\ formData = FilledForm
    /\ showForm = TRUE
    /\ loading = FALSE /\ modifiedRows = {} /\ savingRows = {}
    /\ IdleNet /\ IdleCounts /\ IdleRead

\* what is typed into a cell
EditValues == {V_ABC, V_150, V_1000C, V_QUARTER}

EditCell ==
    /\ nEdits < MaxEdits
    /\ \E i \in 1..Len(history), j \in 1..Len(headers), v \in EditValues :
          /\ HandleCellChange(i, headers[j], v)
          /\ lastEdit' = [row |-> i, header |-> headers[j], value |-> v]
    /\ nEdits' = nEdits + 1

NextEdit == EditCell

SpecEdit == InitEdit /\ [][NextEdit]_vars

\* A cell string read by each calculation path
InitRead ==
    /\ history = <<>> /\ headers = <<>> /\ loading = FALSE
    /\ modifiedRows = {} /\ savingRows = {}
    /\ showForm = FALSE /\ formData = EmptyForm
    /\ serverRows = <<>>
    /\ IdleNet /\ IdleCounts
    /\ cell \in ReadSamples /\ path = "none" /\ parsed = Zero
    /\ IdleSide

NextRead == ReadPreview \/ ReadEdit \/ ReadAggregator

SpecRead == InitRead /\ [][NextRead]_vars

----------------------------------------------------------------------------
(* Properties *)

\* every column the recalculation reads or writes resolves (import difference
\* is optional)
AllResolved(k) ==
    /\ Truthy(k.kMF) /\ Truthy(k.kRate)
    /\ Truthy(k.kExpCurr) /\ Truthy(k.kExpPrev) /\ Truthy(k.kExpDiff) /\ Truthy(k.kExpKWH)
    /\ Truthy(k.kImpCurr) /\ Truthy(k.kImpPrev) /\ Truthy(k.kImpKWH)
    /\ Truthy(k.kNet) /\ Truthy(k.kBill)

\* the last step was a handleCellChange on one of the given columns of a ledger
\* whose columns all resolve
Edited(k, cols) ==
    /\ lastEdit # NoEdit
    /\ AllResolved(k)
    /\ lastEdit.header \in cols

\* the columns whose edit triggers the recalculation
Inputs(k) == {k.kExpCurr, k.kImpCurr, k.kMF, k.kRate}

\* a value as a two-decimal cell holds it
Round2(x) == ParseFloat(ToFixed2(x))

\* the billing formula on a row's cells: net units from the exact kWh values
\* and from the kWh values as two-decimal cells hold them
Formula(k, row) ==
    LET mf == Val(row, k.kMF)
        rate == Val(row, k.kRate)
        diffExport == NumSub(Val(row, k.kExpCurr), Val(row, k.kExpPrev))
        diffImport == NumSub(Val(row, k.kImpCurr), Val(row, k.kImpPrev))
        kwhExport == NumMul(diffExport, mf)
        kwhImport == NumMul(diffImport, mf)
    IN [mf |-> mf, rate |-> rate,
        prevExport |-> Val(row, k.kExpPrev),
        diffExport |-> diffExport, diffImport |-> diffImport,
        kwhExport |-> kwhExport, kwhImport |-> kwhImport,
        netExact |-> NumSub(kwhExport, kwhImport),
        netWritten |-> NumSub(Round2(kwhExport), Round2(kwhImport))]

Whole(n) == Num(n, 0)

\* the columns the preview reads by position are the ones the edit finds by name
PositionalLayout(hs, k) ==
    /\ Len(hs) >= 12
    /\ hs[2] = k.kMF
    /\ hs[4] = k.kExpCurr
    /\ hs[8] = k.kImpCurr
    /\ hs[12] = k.kRate

QualifyingRows ==
    {i \in 1..Len(history) :
        /\ Len(headers) >= 2
        /\ NumPositive(ParseFloat(StripCommas(history[i][headers[2]])))}

\* C7: lastValidRow is the row of the highest index among the rows whose meter
\* factor is numeric and strictly positive, and is null when there is none
C7_LastValidRowIsLatestQualifying ==
    LET last == LastValidIndex(history, headers)
    IN IF QualifyingRows = {}
       THEN last = 0
       ELSE /\ last \in QualifyingRows
            /\ \A i \in QualifyingRows : i <= last

\* C7 witness: the meter factor of the last row edited to a non-numeric value,
\* so the scan skips it and settles on the row before
C7_Witness ==
    /\ lastEdit # NoEdit
    /\ lastEdit.row = 2 /\ lastEdit.header = H_MF /\ lastEdit.value = V_ABC
    /\ Len(history) = 2
    /\ QualifyingRows = {1}
    /\ LastValidIndex(history, headers) = 1

\* the derived columns handleCellChange writes, where the headers have them
DerivedKeys(k) ==
    {c \in {k.kExpDiff, k.kExpKWH, k.kImpDiff, k.kImpKWH, k.kNet, k.kBill} :
        Truthy(c)}

\* C10: after a handleCellChange on any ledger, no derived cell of the edited
\* row (difference, kWh, net, bill) holds the text NaN
C10_NoDerivedCellIsNaN ==
    lastEdit # NoEdit =>
       \A c \in DerivedKeys(ResolveKeys(headers)) : history[lastEdit.row][c] # S_NaN

\* a string with no digit in it
NoDigit(s) == \A i \in 1..Len(s) : ~IsDigit(s[i])

\* a number written with thousands separators: an optional minus, one to three
\* digits, groups of a comma and three digits, and an optional fraction
GroupedNumber(s) ==
    LET u == IF s # <<>> /\ s[1] = "-" THEN Tail(s) ELSE s
        dots == {i \in 1..Len(u) : u[i] = "."}
        whole == IF dots = {} THEN Len(u) ELSE (CHOOSE i \in dots : TRUE) - 1
    IN /\ Cardinality(dots) <= 1
       /\ whole >= 1
       /\ dots # {} => Len(u) > whole + 1
       /\ \A i \in 1..Len(u) : IsDigit(u[i]) \/ u[i] = "," \/ u[i] = "."
       /\ \A i \in 1..whole :
             (u[i] = ",") <=> (i > 1 /\ (whole - i + 1) % 4 = 0)
       /\ \A i \in (whole + 1)..Len(u) : u[i] # ","

\* the number such a string denotes
Denoted(s) ==
    LET neg == s # <<>> /\ s[1] = "-"
        u == StripCommas(IF neg THEN Tail(s) ELSE s)
        dots == {i \in 1..Len(u) : u[i] = "."}
        whole == IF dots = {} THEN Len(u) ELSE (CHOOSE i \in dots : TRUE) - 1
        frac == IF dots = {} THEN <<>> ELSE SubSeq(u, whole + 2, Len(u))
        ds == SubSeq(u, 1, whole) \o frac
        n == IntOf(ds, 1, Len(ds))
    IN Num(IF neg THEN 0 - n ELSE n, Len(frac))

\* C9: every calculation path reads a comma-grouped number as the number it
\* denotes and a string without digits as 0
C9_EveryPathStripsCommasAndDefaultsToZero ==
    path # "none" =>
       /\ GroupedNumber(cell) => parsed = Denoted(cell)
       /\ NoDigit(cell) => parsed = Zero

\* the step is the completion of the PUT r, and its outcome
Completes(r) == r \in puts /\ puts' = puts \ {r}
Succeeded == dialogs'.msg = "Saved successfully!"
Failed == dialogs'.msg = "Failed to save"

\* C3: row i leaves modifiedRows only in the step in which a PUT for row i
\* completes successfully (or the ledger is reloaded), and when a PUT for row i
\* fails, row i is in modifiedRows as saveRow finishes
C3_ClearedOnlyOnOwnSuccess ==
    [][/\ \A i \in modifiedRows \ modifiedRows' :
             \/ gets' # gets
             \/ \E r \in puts : r.row = i /\ Completes(r) /\ Succeeded
       /\ \A r \in puts : (Completes(r) /\ Failed) => r.row \in modifiedRows'
      ]_vars

\* C4: once the ledger is loaded, every row whose contents differ from what the
\* backend last loaded or stored for it is in modifiedRows
C4_UnsavedRowsAreModified ==
    ~loading =>
       \A i \in 1..Len(history) :
          (i \in DOMAIN serverRows /\ history[i] # serverRows[i]) => i \in modifiedRows

\* C5: while saves of two rows overlap, the completion of one changes neither
\* the other row's membership in savingRows nor in modifiedRows, and with no
\* save in flight savingRows is empty
C5_SavesAreIndependent ==
    [][/\ \A r \in puts : Completes(r) =>
             \A i \in {q.row : q \in puts \ {r}} \ {r.row} :
                /\ (i \in savingRows') <=> (i \in savingRows)
                /\ (i \in modifiedRows') <=> (i \in modifiedRows)
       /\ puts' = {} => savingRows' = {}
      ]_vars

\* C6: every PUT /update-row is issued by one saveRow(i) step on a row showing
\* its SAVE button, one request per step, carrying row i as it is in that step;
\* no cell edit, reload or completion issues one
C6_PutOnlyOnExplicitSave ==
    [][\A r \in puts' \ puts :
          /\ puts' = puts \cup {r}
          /\ nSaves' = nSaves + 1
          /\ nEdits' = nEdits /\ gets' = gets /\ history' = history
          /\ r.row \in modifiedRows /\ r.row \notin savingRows
          /\ savingRows' = savingRows \cup {r.row}
          /\ r.body = history[r.row]
      ]_vars

\* C6 witness: a PUT in flight still carrying the row as it was when saveRow
\* ran, after the row has been edited again
C6_Witness ==
    \E r \in puts :
       /\ r.row \in savingRows
       /\ r.body # serverRows[r.row]
       /\ r.body # history[r.row]
       /\ r.body[H_EXP_CURR] = V_150
       /\ history[r.row][H_EXP_CURR] = V_0

\* C8: when no row has a valid meter factor the preview is absent, the panel says
\* no previous row was found, and a submit does not confirm a bill of 0
C8_NoZeroBillWithoutValidMF ==
    [][LastValidIndex(history, headers) = 0 =>
          /\ ~HasLiveStats(history, headers)
          /\ PreviewPanel(history, headers)
                = "Could not find previous data row to base calculations on."
          /\ nSubmits' # nSubmits => dialogs'.amount # V_0
      ]_vars

\* every column the recalculation needs resolves, the two difference columns
\* aside
AllButDifferences(k) ==
    /\ Truthy(k.kMF) /\ Truthy(k.kRate)
    /\ Truthy(k.kExpCurr) /\ Truthy(k.kExpPrev) /\ Truthy(k.kExpKWH)
    /\ Truthy(k.kImpCurr) /\ Truthy(k.kImpPrev) /\ Truthy(k.kImpKWH)
    /\ Truthy(k.kNet) /\ Truthy(k.kBill)

\* C11: after a triggering edit of a ledger that lacks the import-difference or
\* the export-difference column, both kWh cells, net and bill are still
\* recomputed from the row's current readings
C11_MissingDifferenceSkipsOnlyItself ==
    LET k == ResolveKeys(headers)
    IN (/\ lastEdit # NoEdit
        /\ AllButDifferences(k)
        /\ lastEdit.header \in Inputs(k)) =>
          LET row == history[lastEdit.row]
              f == Formula(k, row)
          IN /\ row[k.kExpKWH] = ToFixed2(f.kwhExport)
             /\ row[k.kImpKWH] = ToFixed2(f.kwhImport)
             /\ row[k.kNet] = ToFixed2(f.netWritten)
             /\ row[k.kBill] = IntToString(MathRound(NumMul(f.netWritten, f.rate)))

----------------------------------------------------------------------------
(* The Aggregator (DashboardStats.tsx:17-112) *)

\* the phrases the column search and the grouping look for
S_PLANT_TYPE == <<"p","l","a","n","t"," ","t","y","p","e">>
S_WITHIN == <<"w","i","t","h","i","n">>
S_STATE == <<"s","t","a","t","e">>
S_INSTALLED == <<"i","n","s","t","a","l","l","e","d">>
S_CAPACITY == <<"c","a","p","a","c","i","t","y">>
S_MW == <<"m","w">>
S_CONTRACTED == <<"c","o","n","t","r","a","c","t","e","d">>
S_NET_UNIT == <<"n","e","t"," ","u","n","i","t">>
S_OTHER == <<"O","t","h","e","r">>
S_POWER_PLANT == <<" ","P","o","w","e","r"," ","P","l","a","n","t">>
S_PROJECT == <<" ","P","r","o","j","e","c","t">>
S_SOLAR == <<"s","o","l","a","r">>
S_SOLAR_PUNJAB == <<"S","o","l","a","r"," ","(","P","u","n","j","a","b",")">>
S_SOLAR_OUTSIDE == <<"S","o","l","a","r"," ","(","O","u","t","s","i","d","e",")">>
S_UNDEFINED == <<"u","n","d","e","f","i","n","e","d">>

\* a || b on strings
OrElse(a, b) == IF Truthy(a) THEN a ELSE b

\* cols.find(pred), hits being the places of the columns the predicate holds
\* for: the first of those columns, or undefined
FirstWhere(cols, hits) ==
    IF hits = {} THEN Undefined
    ELSE cols[CHOOSE i \in hits : \A j \in hits : i <= j]

\* c.toLowerCase().includes(phrase)
Has(c, phrase) == Includes(ToLowerCase(c), phrase)

\* the places of the columns whose lower-case name contains the phrase
Having(cols, phrase) == {i \in 1..Len(cols) : Has(cols[i], phrase)}

\* the columns the Aggregator reads (DashboardStats.tsx:35-42)
TypeCol(cols) ==
    OrElse(FirstWhere(cols, Having(cols, S_PLANT_TYPE)),
           OrElse(IF cols # <<>> THEN cols[1] ELSE Undefined, <<>>))

StateCol(cols) ==
    OrElse(FirstWhere(cols, Having(cols, S_WITHIN) \cup Having(cols, S_STATE)), <<>>)

CapCol(cols) ==
    OrElse(FirstWhere(cols, Having(cols, S_INSTALLED) \cap Having(cols, S_CAPACITY)),
           OrElse(FirstWhere(cols, Having(cols, S_CAPACITY) \cup Having(cols, S_MW)),
                  <<>>))

ContractedCol(cols) ==
    OrElse(FirstWhere(cols, Having(cols, S_CONTRACTED) \cap Having(cols, S_CAPACITY)),
           <<>>)

GenCols(cols) == SelectSeq(cols, LAMBDA c : Has(c, S_NET_UNIT))

\* String(v)
JsString(v) == IF v = Undefined THEN S_UNDEFINED ELSE v

\* s.replace(pattern, "") with a string pattern: the first occurrence removed
RemoveFirst(s, pat) ==
    LET at == {i \in 0..(Len(s) - Len(pat)) : SubSeq(s, i + 1, i + Len(pat)) = pat}
    IN IF at = {} THEN s
       ELSE LET i == CHOOSE i \in at : \A j \in at : i <= j
            IN SubSeq(s, 1, i) \o SubSeq(s, i + Len(pat) + 1, Len(s))

\* String(p[typeCol]).trim(): the label without the "Other" default
RawType_NoDefault(p, typeCol) == TrimEnd(TrimStart(JsString(Get(p, typeCol))))

\* String(p[typeCol] || "Other").trim() (DashboardStats.tsx:50)
RawType(p, typeCol) == TrimEnd(TrimStart(OrElse(Get(p, typeCol), S_OTHER)))

\* stateCol && String(p[stateCol]).toLowerCase().includes("within")
\* (DashboardStats.tsx:51)
IsPunjab(p, stateCol) ==
    Truthy(stateCol) /\ Has(JsString(Get(p, stateCol)), S_WITHIN)

\* the category label with "solar" looked for in the key as it is written
GroupKey_CaseSensitive(p, typeCol, stateCol) ==
    LET key == RemoveFirst(RemoveFirst(RawType(p, typeCol), S_POWER_PLANT), S_PROJECT)
    IN IF Includes(key, S_SOLAR)
       THEN IF IsPunjab(p, stateCol) THEN S_SOLAR_PUNJAB ELSE S_SOLAR_OUTSIDE
       ELSE key

\* the category label of a record (DashboardStats.tsx:53-55)
GroupKey(p, typeCol, stateCol) ==
    LET key == RemoveFirst(RemoveFirst(RawType(p, typeCol), S_POWER_PLANT), S_PROJECT)
    IN IF Has(key, S_SOLAR)
       THEN IF IsPunjab(p, stateCol) THEN S_SOLAR_PUNJAB ELSE S_SOLAR_OUTSIDE
       ELSE key

\* a + b
NumAdd(a, b) == NumSub(a, NumSub(Zero, b))

\* groups that add the installed capacity to their contracted sum
AddToGroups_InstalledTwice(groups, key, capVal, conVal) ==
    LET at == {i \in 1..Len(groups) : groups[i].name = key}
        gs == IF at = {}
              THEN Append(groups, [name |-> key, count |-> 0,
                                   installed |-> Zero, contracted |-> Zero])
              ELSE groups
        i == CHOOSE i \in 1..Len(gs) : gs[i].name = key
    IN [gs EXCEPT ![i] = [name |-> key,
                          count |-> gs[i].count + 1,
                          installed |-> NumAdd(gs[i].installed, capVal),
                          contracted |-> NumAdd(gs[i].contracted, capVal)]]

\* typeGroups after one more record: its group created at the end when new,
\* then count, installed and contracted added to (DashboardStats.tsx:57-69)
AddToGroups(groups, key, capVal, conVal) ==
    LET at == {i \in 1..Len(groups) : groups[i].name = key}
        gs == IF at = {}
              THEN Append(groups, [name |-> key, count |-> 0,
                                   installed |-> Zero, contracted |-> Zero])
              ELSE groups
        i == CHOOSE i \in 1..Len(gs) : gs[i].name = key
    IN [gs EXCEPT ![i] = [name |-> key,
                          count |-> gs[i].count + 1,
                          installed |-> NumAdd(gs[i].installed, capVal),
                          contracted |-> NumAdd(gs[i].contracted, conVal)]]

\* typeGroups after the records 1..i, in the order the keys were created
RECURSIVE TypeGroups(_, _, _)
TypeGroups(P, cols, i) ==
    IF i = 0 THEN <<>>
    ELSE LET p == P[i]
         IN AddToGroups(TypeGroups(P, cols, i - 1),
                        GroupKey(p, TypeCol(cols), StateCol(cols)),
                        AggregatorRead(Get(p, CapCol(cols))),
                        AggregatorRead(Get(p, ContractedCol(cols))))

\* totalCapacity before rounding: the conVal of the records 1..i added up
\* (DashboardStats.tsx:47-48)
RECURSIVE SumContracted(_, _, _)
SumContracted(P, cols, i) ==
    IF i = 0 THEN Zero
    ELSE NumAdd(SumContracted(P, cols, i - 1),
                AggregatorRead(Get(P[i], ContractedCol(cols))))

IsLetter(c) == c \in DOMAIN UpperOf \/ c \in DOMAIN LowerOf

\* the first index from i on that holds no letter
RECURSIVE LettersEnd(_, _)
LettersEnd(s, i) ==
    IF i <= Len(s) /\ IsLetter(s[i]) THEN LettersEnd(s, i + 1) ELSE i

\* gCol.match(/^([A-Za-z]+-\d{2})/): the month label that starts the column
\* name, or undefined (DashboardStats.tsx:73-75)
MonthLabel(gCol) ==
    LET p == LettersEnd(gCol, 1)
    IN IF /\ p > 1 /\ p + 2 <= Len(gCol)
          /\ gCol[p] = "-" /\ IsDigit(gCol[p + 1]) /\ IsDigit(gCol[p + 2])
       THEN SubSeq(gCol, 1, p + 2)
       ELSE Undefined

\* monthlyGroups[label] = (monthlyGroups[label] || 0) + val, a new label going
\* to the end (DashboardStats.tsx:78)
AddToMonthly(ms, label, val) ==
    LET at == {i \in 1..Len(ms) : ms[i].name = label}
    IN IF at = {} THEN Append(ms, [name |-> label, value |-> val])
       ELSE LET i == CHOOSE i \in at : TRUE
            IN [ms EXCEPT ![i] = [name |-> label, value |-> NumAdd(ms[i].value, val)]]

\* the k-th visit of the two nested forEach loops: record by record, each with
\* the generation columns in column order (DashboardStats.tsx:45, 72)
VisitRecord(G, k) == ((k - 1) \div Len(G)) + 1
VisitColumn(G, k) == ((k - 1) % Len(G)) + 1

\* whether a visit adds its value, and the value (DashboardStats.tsx:73-77)
VisitValue(P, G, k) == AggregatorRead(Get(P[VisitRecord(G, k)], G[VisitColumn(G, k)]))
\* a visit counted on the pattern alone, whatever the sign of its value
VisitCounts_AnySign(P, G, k) ==
    MonthLabel(G[VisitColumn(G, k)]) # Undefined

VisitCounts(P, G, k) ==
    /\ MonthLabel(G[VisitColumn(G, k)]) # Undefined
    /\ NumPositive(VisitValue(P, G, k))

\* monthlyGroups and totalGen after the first k visits (DashboardStats.tsx:72-82)
RECURSIVE MonthlyGroups(_, _, _)
MonthlyGroups(P, G, k) ==
    IF k = 0 THEN <<>>
    ELSE IF VisitCounts(P, G, k)
         THEN AddToMonthly(MonthlyGroups(P, G, k - 1),
                           MonthLabel(G[VisitColumn(G, k)]), VisitValue(P, G, k))
         ELSE MonthlyGroups(P, G, k - 1)

RECURSIVE TotalGen(_, _, _)
TotalGen(P, G, k) ==
    IF k = 0 THEN Zero
    ELSE IF VisitCounts(P, G, k)
         THEN NumAdd(TotalGen(P, G, k - 1), VisitValue(P, G, k))
         ELSE TotalGen(P, G, k - 1)

\* Array.prototype.sort: before[i][j] is "the comparator puts the i-th entry
\* before the j-th" (a negative result); two entries neither of which is before
\* the other compare equal
OrdersStrictly(n, before) ==
    LET lt(i, j) == i # j /\ before[i][j]
        eq(i, j) == ~lt(i, j) /\ ~lt(j, i)
    IN \A i, j, m \in 1..n :
          /\ ~(lt(i, j) /\ lt(j, i))
          /\ (lt(i, j) /\ lt(j, m)) => lt(i, m)
          /\ (eq(i, j) /\ eq(j, m)) => eq(i, m)

\* the stable sort: equal entries keep their order
StableSort(seq, before) ==
    LET n == Len(seq)
        first(i, j) == \/ (i # j /\ before[i][j])
                       \/ (~before[j][i] /\ i < j)
        rank(i) == Cardinality({j \in 1..n : j # i /\ first(j, i)}) + 1
    IN [r \in 1..n |-> seq[CHOOSE i \in 1..n : rank(i) = r]]

Rearrangements(seq) ==
    LET n == Len(seq)
    IN {[r \in 1..n |-> seq[f[r]]] :
           f \in {g \in [1..n -> 1..n] : \A a, b \in 1..n : a # b => g[a] # g[b]}}

\* what sort may return: the stable order under a consistent comparator, and
\* an order the engine defines under an inconsistent one
SortOutcomes(seq, before) ==
    IF OrdersStrictly(Len(seq), before) THEN {StableSort(seq, before)}
    ELSE Rearrangements(seq)

\* the comparator of the category groups (DashboardStats.tsx:86-90)
GroupBefore(a, b) ==
    IF a.name = S_SOLAR_PUNJAB THEN TRUE
    ELSE IF b.name = S_SOLAR_PUNJAB THEN FALSE
    ELSE NumPositive(NumSub(a.installed, b.installed))

\* the comparator's verdict on every two groups
GroupOrder(gs) == [i \in 1..Len(gs) |-> [j \in 1..Len(gs) |-> GroupBefore(gs[i], gs[j])]]

\* monthsOrder and monthsOrder.indexOf (DashboardStats.tsx:93, 102)
MonthsOrder == <<<<"A","p","r">>, <<"M","a","y">>, <<"J","u","n">>, <<"J","u","l">>, <<"A","u","g">>, <<"S","e","p">>,
                 <<"O","c","t">>, <<"N","o","v">>, <<"D","e","c">>, <<"J","a","n">>, <<"F","e","b">>, <<"M","a","r">>>>

MonthIndex(m) ==
    IF \E i \in 1..12 : MonthsOrder[i] = m
    THEN (CHOOSE i \in 1..12 : MonthsOrder[i] = m) - 1
    ELSE -1

\* name.substring(0, 3)
Substring3(s) == SubSeq(s, 1, IF Len(s) < 3 THEN Len(s) ELSE 3)

\* the comparator of the monthly series (DashboardStats.tsx:99-103)
LineBefore(a, b) == MonthIndex(Substring3(a.name)) < MonthIndex(Substring3(b.name))

\* the comparator's verdict on every two entries
LineOrder(ls) == [i \in 1..Len(ls) |-> [j \in 1..Len(ls) |-> LineBefore(ls[i], ls[j])]]

\* Number((value / 1000000).toFixed(2)) (DashboardStats.tsx:97)
ToMU(value) ==
    IF IsNaN(value) THEN NaN
    ELSE StringToNumber(ToFixed2(Num(value.n, value.e + 6)))

\* lineData before it is sorted (DashboardStats.tsx:94-98)
LineEntries(ms) == [i \in 1..Len(ms) |-> [name |-> ms[i].name, val |-> ToMU(ms[i].value)]]

\* the default zero state (DashboardStats.tsx:19-27)
Defaults ==
    [computed |-> TRUE, totalCapacity |-> Zero, totalCount |-> 0, totalGen |-> Zero,
     groups |-> <<>>, lineData |-> <<>>]

\* the results the stats memo may have for the records given
\* (DashboardStats.tsx:17-112)
Aggregator(prj) ==
    LET P == prj.rows
        cols == prj.cols
        G == GenCols(cols)
        visits == Len(P) * Len(G)
        groups == TypeGroups(P, cols, Len(P))
        lines == LineEntries(MonthlyGroups(P, G, visits))
    IN IF P = <<>> THEN {Defaults}
       ELSE {[computed |-> TRUE,
              totalCapacity |-> MathRound(SumContracted(P, cols, Len(P))),
              totalCount |-> Len(P),
              totalGen |-> TotalGen(P, G, visits),
              groups |-> g,
              lineData |-> l] :
                g \in SortOutcomes(groups, GroupOrder(groups)),
                l \in SortOutcomes(lines, LineOrder(lines))}

-----------------------------------------------------------------------------
(* Project lists the dashboard is given *)

MaxRecords == 3

C_NAME == <<"P","r","o","j","e","c","t"," ","N","a","m","e">>
C_TYPE == <<"P","l","a","n","t"," ","T","y","p","e">>
C_STATE == <<"W","i","t","h","i","n","/","O","u","t","s","i","d","e"," ","S","t","a","t","e">>
C_INST == <<"I","n","s","t","a","l","l","e","d"," ","C","a","p","a","c","i","t","y"," ","(","M","W",")">>
C_CONT == <<"C","o","n","t","r","a","c","t","e","d"," ","C","a","p","a","c","i","t","y"," ","(","M","W",")">>
C_APR == <<"A","p","r","-","2","5"," ","N","e","t"," ","U","n","i","t","s">>
C_JAN == <<"J","a","n","-","2","6"," ","N","e","t"," ","U","n","i","t","s">>
C_JAN_UPPER == <<"J","A","N","-","2","6"," ","N","e","t"," ","U","n","i","t","s">>
C_TOTAL == <<"T","o","t","a","l"," ","N","e","t"," ","U","n","i","t","s">>

\* sheets: every column with the contracted capacity ahead of the installed
\* one; the months out of order; neither plant type nor state; no contracted
\* capacity; a month in capitals; neither installed capacity nor state
SheetFull == <<C_NAME, C_TYPE, C_STATE, C_CONT, C_INST, C_APR, C_JAN, C_TOTAL>>
SheetMonthsReversed == <<C_NAME, C_TYPE, C_STATE, C_INST, C_CONT, C_JAN, C_APR>>
SheetNoType == <<C_NAME, C_INST, C_CONT, C_APR>>
SheetNoContracted == <<C_NAME, C_TYPE, C_STATE, C_INST, C_APR>>
SheetUpperMonth == <<C_NAME, C_TYPE, C_STATE, C_INST, C_CONT, C_APR, C_JAN_UPPER>>
SheetNoInstalled == <<C_TYPE, C_NAME, C_CONT, C_JAN>>

Sheets == {SheetFull, SheetMonthsReversed, SheetNoType, SheetNoContracted,
           SheetUpperMonth, SheetNoInstalled}

AllColumns == {C_NAME, C_TYPE, C_STATE, C_INST, C_CONT, C_APR, C_JAN, C_JAN_UPPER, C_TOTAL}

Plant(name, type, state, inst, cont, apr, jan, total) ==
    [c \in AllColumns |->
        CASE c = C_NAME -> name
          [] c = C_TYPE -> type
          [] c = C_STATE -> state
          [] c = C_INST -> inst
          [] c = C_CONT -> cont
          [] c = C_APR -> apr
          [] c = C_JAN -> jan
          [] c = C_JAN_UPPER -> jan
          [] c = C_TOTAL -> total]

\* a solar plant within the state; a hydro plant outside it with no April
\* generation; a plant with no type and a negative reading; a solar plant
\* outside the state whose capacity is written with a comma; a plant within the
\* state whose contracted capacity is not a number; a type that spells "solar"
\* only once " Project" is taken out of it
PlantSolarWithin == Plant(<<"P","1">>, <<"S","o","l","a","r"," ","P","o","w","e","r"," ","P","l","a","n","t">>, <<"W","i","t","h","i","n"," ","P","u","n","j","a","b">>, <<"1","0">>, <<"8">>,
                          <<"2","5","0","0","0","0","0">>, <<"1","5","0","0","0","0","0">>, <<"4","0","0","0","0","0","0">>)
PlantHydro == Plant(<<"P","2">>, <<"H","y","d","r","o"," ","P","r","o","j","e","c","t">>, <<"O","u","t","s","i","d","e">>, <<"2","0">>, <<"1","5",".","5">>, <<"0">>, <<"3","0","0","0","0","0","0">>, <<"3","0","0","0","0","0","0">>)
PlantUntyped == Plant(<<"P","3">>, <<>>, <<>>, <<"5">>, <<"5">>, <<>>, <<"-","1","0","0">>, <<>>)
PlantSolarOutside == Plant(<<"P","4">>, <<"S","O","L","A","R">>, <<"O","u","t","s","i","d","e">>, <<"1",",","0","0","0">>, <<"7">>, <<"1","0","0","0","0","0","0">>, <<>>, <<"1","0","0","0","0","0","0">>)
PlantBiomass == Plant(<<"P","5">>, <<"B","i","o","m","a","s","s">>, <<"W","i","t","h","i","n"," ","P","u","n","j","a","b">>, <<"1","0">>, <<"a","b","c">>, <<"5","0","0","0","0","0">>, <<"2","5","0","0","0","0">>, <<"7","5","0","0","0","0">>)
PlantOddType == Plant(<<"P","6">>, <<"S","o"," ","P","r","o","j","e","c","t","l","a","r">>, <<"O","u","t","s","i","d","e">>, <<"2">>, <<"2">>, <<"4","0","0","0","0">>, <<>>, <<"4","0","0","0","0">>)

Plants == {PlantSolarWithin, PlantHydro, PlantUntyped, PlantSolarOutside,
           PlantBiomass, PlantOddType}

\* the record of a plant on a sheet: one key per column, in column order
RecordOn(sheet, plant) == [c \in {sheet[i] : i \in 1..Len(sheet)} |-> plant[c]]

\* the lists the component may be given: no record, or up to MaxRecords records
\* of one sheet; cols is Object.keys(projects[0]) (DashboardStats.tsx:35)
ProjectLists ==
    {NoProjects} \cup
    {[cols |-> sheet, rows |-> [i \in 1..n |-> RecordOn(sheet, ps[i])]] :
        <<sheet, n, ps>> \in
            UNION {{<<s, m, q>> : q \in [1..m -> Plants]} :
                     <<s, m>> \in Sheets \X (1..MaxRecords)}}

\* the component is mounted with a project list and its memo not yet computed
InitAgg ==
    /\ history = <<>> /\ headers = <<>> /\ loading = FALSE
    /\ modifiedRows = {} /\ savingRows = {}
    /\ showForm = FALSE /\ formData = EmptyForm
    /\ serverRows = <<>>
    /\ IdleNet /\ IdleCounts /\ IdleCell /\ IdleDetail /\ IdleHome /\ IdleAuth /\ IdlePage
    /\ projects \in ProjectLists
    /\ stats = NoStats

\* useMemo(() => ..., [projects]) on the render (DashboardStats.tsx:17-112)
Render ==
    /\ stats = NoStats
    /\ stats' \in Aggregator(projects)
    /\ UNCHANGED <<viewVars, netVars, countVars, readVars, projects, detailVars, homeVars, authVars, pageVars>>

NextAgg == Render

SpecAgg == InitAgg /\ [][NextAgg]_vars

-----------------------------------------------------------------------------
(* Properties of the Aggregator *)

\* the plant-type field of every record is the empty string
AllTypesEmpty ==
    \A i \in 1..Len(projects.rows) :
        Get(projects.rows[i], TypeCol(projects.cols)) = <<>>

CountOf(name) ==
    LET at == {i \in 1..Len(stats.groups) : stats.groups[i].name = name}
    IN IF at = {} THEN 0 ELSE stats.groups[CHOOSE i \in at : TRUE].count

\* the plant-type label of a record as it stands in its field, trimmed ("Other"
\* for an empty field), and the same label with " Power Plant" and " Project"
\* taken out
TypeLabel(i) == RawType(projects.rows[i], TypeCol(projects.cols))
StrippedLabel(i) == RemoveFirst(RemoveFirst(TypeLabel(i), S_POWER_PLANT), S_PROJECT)

\* a state column resolves and the record's field in it contains "within"
StateHasWithin(i) ==
    LET sc == StateCol(projects.cols)
    IN /\ sc # <<>>
       /\ Includes(ToLowerCase(JsString(Get(projects.rows[i], sc))), S_WITHIN)

\* the records that belong to each solar bucket, by a reading of the label
SolarWithin(Label(_)) ==
    {i \in 1..Len(projects.rows) : Includes(ToLowerCase(Label(i)), S_SOLAR) /\ StateHasWithin(i)}
SolarElsewhere(Label(_)) ==
    {i \in 1..Len(projects.rows) : Includes(ToLowerCase(Label(i)), S_SOLAR) /\ ~StateHasWithin(i)}

C14_PunjabFirstThenByInstalled ==
    stats.computed =>
        LET g == stats.groups
        IN /\ \A i \in 1..Len(g) : g[i].name = S_SOLAR_PUNJAB => i = 1
           /\ \A i, j \in 1..Len(g) :
                 (/\ i < j
                  /\ g[i].name # S_SOLAR_PUNJAB /\ g[j].name # S_SOLAR_PUNJAB
                  /\ ~IsNaN(g[i].installed) /\ ~IsNaN(g[j].installed))
                 => ~NumPositive(NumSub(g[j].installed, g[i].installed))

\* the place in the fiscal year of the month a label starts with, its first
\* three characters read in any case; 0 when they name no month
FiscalPlace(label) ==
    LET m == ToLowerCase(Substring3(label))
        at == {i \in 1..12 : ToLowerCase(MonthsOrder[i]) = m}
    IN IF at = {} THEN 0 ELSE CHOOSE i \in at : TRUE

\* C15: in the monthly series no entry of a later fiscal month, April being
\* the first and March the last, stands before an entry of an earlier one
C15_SeriesInFiscalOrder ==
    stats.computed =>
        LET l == stats.lineData
        IN \A i, j \in 1..Len(l) :
              (i < j /\ FiscalPlace(l[i].name) # 0 /\ FiscalPlace(l[j].name) # 0)
              => FiscalPlace(l[i].name) <= FiscalPlace(l[j].name)

\* the series of a sheet that lists January ahead of April, both capitalised
\* as in monthsOrder, is in fiscal order
C15_ReorderedProbe ==
    /\ stats.computed /\ projects.cols = SheetMonthsReversed
    /\ Len(stats.lineData) = 2
    /\ FiscalPlace(stats.lineData[1].name) = 1 /\ FiscalPlace(stats.lineData[2].name) = 10

\* the cells that may contribute: record i and column j, the column one of the
\* generation columns whose name starts with letters, a hyphen and two digits,
\* the cell a number above zero
Contributing ==
    {c \in (1..Len(projects.rows)) \X (1..Len(projects.cols)) :
        LET name == projects.cols[c[2]]
        IN /\ Includes(ToLowerCase(name), S_NET_UNIT)
           /\ MonthLabel(name) # Undefined
           /\ NumPositive(AggregatorRead(Get(projects.rows[c[1]], name)))}

CellValue(c) == AggregatorRead(Get(projects.rows[c[1]], projects.cols[c[2]]))

RECURSIVE SumOfCells(_)
SumOfCells(cells) ==
    IF cells = {} THEN Zero
    ELSE LET c == CHOOSE c \in cells : TRUE
         IN NumAdd(CellValue(c), SumOfCells(cells \ {c}))

UnderLabel(label) == {c \in Contributing : MonthLabel(projects.cols[c[2]]) = label}

\* C16: totalGen is the sum of the contributing cells and of nothing else, the
\* series has one entry for each month label a contributing cell stands under
\* and no other entry, and the entry of a label is the sum, in millions to two
\* decimals, of the contributing cells under that label alone
C16_OnlyPatternedPositiveCellsCount ==
    stats.computed =>
        LET l == stats.lineData
        IN /\ stats.totalGen = SumOfCells(Contributing)
           /\ {l[i].name : i \in 1..Len(l)} =
                 {MonthLabel(projects.cols[c[2]]) : c \in Contributing}
           /\ \A i, j \in 1..Len(l) : l[i].name = l[j].name => i = j
           /\ \A i \in 1..Len(l) : l[i].val = ToMU(SumOfCells(UnderLabel(l[i].name)))

\* three records on the sheet with a "Total Net Units" column, among them a
\* zero April cell and a negative January cell, and two months in the series
C16_Witness ==
    /\ stats.computed /\ projects.cols = SheetFull /\ Len(projects.rows) = 3
    /\ \E i \in 1..3 : projects.rows[i][C_APR] = <<"0">>
    /\ \E i \in 1..3 : NumPositive(AggregatorRead(projects.rows[i][C_TOTAL]))
    /\ \E i \in 1..3 : NumPositive(NumSub(Zero, AggregatorRead(projects.rows[i][C_JAN])))
    /\ Len(stats.lineData) = 2
    /\ NumPositive(stats.totalGen)

\* the number a capacity cell stands for: a number written with thousands
\* separators is that number, a cell without a digit is 0 (C9)
CellNumber(c) ==
    IF c = Undefined \/ NoDigit(c) THEN Zero
    ELSE IF GroupedNumber(c) THEN Denoted(c)
    ELSE StringToNumber(c)

\* the column whose name contains "contracted" and "capacity", and the column
\* of the installed capacity, by the first column each predicate holds for
ContractedColumn ==
    LET at == {j \in 1..Len(projects.cols) :
                  /\ Includes(ToLowerCase(projects.cols[j]), S_CONTRACTED)
                  /\ Includes(ToLowerCase(projects.cols[j]), S_CAPACITY)}
    IN IF at = {} THEN <<>> ELSE projects.cols[CHOOSE j \in at : \A m \in at : j <= m]

\* the sum of the numbers f[i] of the records i
RECURSIVE SumOfRecords(_, _)
SumOfRecords(f, records) ==
    IF records = {} THEN Zero
    ELSE LET i == CHOOSE i \in records : TRUE
         IN NumAdd(f[i], SumOfRecords(f, records \ {i}))

SumOfColumn(col, records, Number(_)) ==
    SumOfRecords([i \in 1..Len(projects.rows) |-> Number(Get(projects.rows[i], col))],
                 records)

\* the records counted in the group of a name
RecordsOf(name) ==
    {i \in 1..Len(projects.rows) :
        GroupKey(projects.rows[i], TypeCol(projects.cols), StateCol(projects.cols)) = name}

\* totalCapacity and the installed figures, with the cells read by Number(_)
CapacityFigures(Number(_)) ==
    /\ stats.totalCapacity =
          MathRound(SumOfColumn(ContractedColumn, 1..Len(projects.rows), Number))
    /\ \A g \in 1..Len(stats.groups) :
          stats.groups[g].installed =
             SumOfColumn(CapCol(projects.cols), RecordsOf(stats.groups[g].name), Number)

\* C17: totalCapacity is the rounded sum of the records' contracted capacity, 0
\* on a sheet with no contracted column, and the installed figure of every
\* group is the sum of the installed capacity of the group's records
C17_TotalIsContractedGroupsAreInstalled ==
    (stats.computed /\ projects.rows # <<>>) => CapacityFigures(CellNumber)

\* the same figures with every cell taken as Number() returns it
C17_FiguresAsRead ==
    (stats.computed /\ projects.rows # <<>>) => CapacityFigures(AggregatorRead)

\* the first column, in column order, that one of the predicates holds for,
\* the first predicate that holds for any column deciding; no column (the empty
\* name) when neither holds for any
FirstMatching(cols, First(_), Second(_)) ==
    LET a == {j \in 1..Len(cols) : First(cols[j])}
        b == {j \in 1..Len(cols) : Second(cols[j])}
    IN IF a # {} THEN cols[CHOOSE j \in a : \A m \in a : j <= m]
       ELSE IF b # {} THEN cols[CHOOSE j \in b : \A m \in b : j <= m]
       ELSE <<>>

Names(c, phrase) == Includes(ToLowerCase(c), phrase)

\* C18: each of the Aggregator's roles resolves to the first column that
\* matches its first predicate with a match, and to no column when nothing
\* matches; the total capacity of a sheet with no contracted column is 0
C18_RolesResolveToFirstMatchOrNothing ==
    (stats.computed /\ projects.rows # <<>>) =>
        LET cols == projects.cols
        IN /\ TypeCol(cols) =
                 FirstMatching(cols, LAMBDA c : Names(c, S_PLANT_TYPE), LAMBDA c : FALSE)
           /\ StateCol(cols) =
                 FirstMatching(cols, LAMBDA c : Names(c, S_WITHIN) \/ Names(c, S_STATE),
                               LAMBDA c : FALSE)
           /\ CapCol(cols) =
                 FirstMatching(cols, LAMBDA c : Names(c, S_INSTALLED) /\ Names(c, S_CAPACITY),
                               LAMBDA c : Names(c, S_CAPACITY) \/ Names(c, S_MW))
           /\ ContractedCol(cols) =
                 FirstMatching(cols, LAMBDA c : Names(c, S_CONTRACTED) /\ Names(c, S_CAPACITY),
                               LAMBDA c : FALSE)
           /\ ContractedCol(cols) = <<>> => stats.totalCapacity = Zero

\* the roles other than the plant type resolve as C18 says on every sheet
C18_OtherRolesProbe ==
    (stats.computed /\ projects.rows # <<>>) =>
        LET cols == projects.cols
        IN /\ StateCol(cols) =
                 FirstMatching(cols, LAMBDA c : Names(c, S_WITHIN) \/ Names(c, S_STATE),
                               LAMBDA c : FALSE)
           /\ CapCol(cols) =
                 FirstMatching(cols, LAMBDA c : Names(c, S_INSTALLED) /\ Names(c, S_CAPACITY),
                               LAMBDA c : Names(c, S_CAPACITY) \/ Names(c, S_MW))
           /\ ContractedCol(cols) =
                 FirstMatching(cols, LAMBDA c : Names(c, S_CONTRACTED) /\ Names(c, S_CAPACITY),
                               LAMBDA c : FALSE)
           /\ ContractedCol(cols) = <<>> => stats.totalCapacity = Zero

-----------------------------------------------------------------------------
(* The project selection of ProjectDetail (ProjectDetail.tsx:34-60) *)

MaxSelects == 3

S_NAME == <<"n","a","m","e">>
S_PROJECT_LOWER == <<"p","r","o","j","e","c","t">>
S_HISTORY_PATH == <<"/","h","i","s","t","o","r","y","/">>

\* the characters encodeURIComponent leaves as they are, and the escapes of the
\* other characters that occur in the names used here
IsUnreserved(c) ==
    \/ IsLetter(c) \/ IsDigit(c)
    \/ c \in {"-", "_", ".", "!", "~", "*", "'", "(", ")"}

EscapeOf == (" " :> <<"%","2","0">>) @@ ("&" :> <<"%","2","6">>) @@ ("/" :> <<"%","2","F">>) @@ ("%" :> <<"%","2","5">>)
            @@ ("," :> <<"%","2","C">>) @@ ("#" :> <<"%","2","3">>) @@ ("?" :> <<"%","3","F">>) @@ ("+" :> <<"%","2","B">>)

\* the characters of the name as they are, escapes put in
EncodeURIComponent_AsIs(s) == s

\* encodeURIComponent(s)
RECURSIVE EncodeURIComponent(_)
EncodeURIComponent(s) ==
    IF s = <<>> THEN <<>>
    ELSE (IF IsUnreserved(s[1]) THEN <<s[1]>> ELSE EscapeOf[s[1]])
         \o EncodeURIComponent(Tail(s))

\* getProjectName() (ProjectDetail.tsx:34-39)
GetProjectName(p) ==
    IF p = NoProject THEN <<>>
    ELSE LET found == FirstWhere(p.keys, Having(p.keys, S_NAME) \cap Having(p.keys, S_PROJECT_LOWER))
             nameKey == IF Truthy(found) THEN found
                        ELSE IF p.keys # <<>> THEN p.keys[1] ELSE Undefined
         IN OrElse(Get(p.vals, nameKey), <<>>)

\* the path fetchHistory requests (ProjectDetail.tsx:49)
HistoryPath(name) == S_HISTORY_PATH \o EncodeURIComponent(name)

\* a row of the projects sheet: its keys in column order, and its cells
ProjectRow(keys, cells) ==
    [keys |-> keys, vals |-> [k \in {keys[i] : i \in 1..Len(keys)} |->
                                 cells[CHOOSE i \in 1..Len(keys) : keys[i] = k]]]

\* rows: a name with a blank in the second column; a name with "&" and "/"
\* under a differently worded key; no name column, the first column standing
\* in; an empty name; the first name again in another row of the sheet
ProjectAlpha == ProjectRow(<<<<"S","r"," ","N","o">>, <<"P","r","o","j","e","c","t"," ","N","a","m","e">>>>, <<<<"1">>, <<"A","l","p","h","a"," ","S","o","l","a","r">>>>)
ProjectHydro == ProjectRow(<<<<"N","a","m","e"," ","o","f"," ","P","r","o","j","e","c","t">>, <<"P","l","a","n","t"," ","T","y","p","e">>>>, <<<<"R","&","D","/","H","y","d","r","o">>, <<"H","y","d","r","o">>>>)
ProjectNoNameKey == ProjectRow(<<<<"P","l","a","n","t">>, <<"T","y","p","e">>>>, <<<<"B","e","t","a">>, <<"W","i","n","d">>>>)
ProjectUnnamed == ProjectRow(<<<<"S","r"," ","N","o">>, <<"P","r","o","j","e","c","t"," ","N","a","m","e">>>>, <<<<"4">>, <<>>>>)
ProjectAlphaAgain == ProjectRow(<<<<"S","r"," ","N","o">>, <<"P","r","o","j","e","c","t"," ","N","a","m","e">>>>, <<<<"5">>, <<"A","l","p","h","a"," ","S","o","l","a","r">>>>)

ProjectRows == {ProjectAlpha, ProjectHydro, ProjectNoNameKey, ProjectUnnamed,
                ProjectAlphaAgain}

\* the parent gives the component another project (or none), and the effect on
\* [projectName] runs after the render: fetchHistory up to its await when the
\* name has changed and is not empty (ProjectDetail.tsx:40-49)
SelectProject(p) ==
    /\ p # project
    /\ Len(urls) < MaxSelects
    /\ project' = p
    /\ IF GetProjectName(p) # GetProjectName(project) /\ Truthy(GetProjectName(p))
       THEN /\ loading' = TRUE
            /\ gets' = gets \cup {[id |-> nGets]}
            /\ nGets' = nGets + 1
            /\ urls' = Append(urls, HistoryPath(GetProjectName(p)))
       ELSE UNCHANGED <<loading, gets, nGets, urls>>
    /\ UNCHANGED <<history, headers, modifiedRows, savingRows, showForm, formData>>
    /\ UNCHANGED <<puts, posts, dialogs, serverRows>>
    /\ UNCHANGED <<nEdits, nSaves, nSubmits, lastEdit, readVars, aggVars, homeVars, authVars, pageVars>>

\* the component mounted with no project
InitSelect ==
    /\ history = <<>> /\ headers = <<>> /\ loading = FALSE
    /\ modifiedRows = {} /\ savingRows = {}
    /\ showForm = FALSE /\ formData = EmptyForm
    /\ serverRows \in {Ledger(ServerHeaders, L) : L \in LedgerViewSamples}
    /\ IdleNet /\ IdleCounts /\ IdleRead

NextSelect ==
    \/ \E p \in ProjectRows \cup {NoProject} : SelectProject(p)
    \/ \E g \in gets : HistoryOk(g)
    \/ \E g \in gets : HistoryEmptyOrFail(g)

SpecSelect == InitSelect /\ [][NextSelect]_vars

-----------------------------------------------------------------------------
(* Properties of the project selection *)

\* the resolved name of a project: its value under the first key that contains
\* both "name" and "project", else under its first key
NameOf(p) ==
    IF p.keys = <<>> THEN <<>>
    ELSE LET both == {i \in 1..Len(p.keys) :
                         /\ Includes(ToLowerCase(p.keys[i]), S_NAME)
                         /\ Includes(ToLowerCase(p.keys[i]), S_PROJECT_LOWER)}
             i == IF both = {} THEN 1 ELSE CHOOSE i \in both : \A j \in both : i <= j
         IN p.vals[p.keys[i]]

\* a URL-encoded segment read back
RECURSIVE PercentDecode(_)
PercentDecode(seg) ==
    IF seg = <<>> THEN <<>>
    ELSE IF seg[1] = "%" /\ Len(seg) >= 3
         THEN <<CHOOSE c \in DOMAIN EscapeOf : EscapeOf[c] = SubSeq(seg, 1, 3)>>
              \o PercentDecode(SubSeq(seg, 4, Len(seg)))
         ELSE <<seg[1]>> \o PercentDecode(Tail(seg))

\* url is /history/ followed by the URL-encoded name
RequestsHistoryOf(url, name) ==
    LET n == Len(S_HISTORY_PATH)
        seg == SubSeq(url, n + 1, Len(url))
    IN /\ Len(url) >= n /\ SubSeq(url, 1, n) = S_HISTORY_PATH
       /\ \A i \in 1..Len(seg) : IsUnreserved(seg[i]) \/ seg[i] = "%"
       /\ PercentDecode(seg) = name

\* the step issues one GET /history, for the name
FetchesHistoryOf(name) ==
    /\ Len(urls') = Len(urls) + 1
    /\ RequestsHistoryOf(urls'[Len(urls')], name)
    /\ Cardinality(gets' \ gets) = 1
    /\ loading'

\* C19: a change of the project shown that changes the resolved name, to a
\* name that is not empty, issues in the same step a GET /history for the
\* URL-encoded resolved name of the new project
C19_ChangedNameIsFetched ==
    [][(/\ project' # project /\ project' # NoProject
        /\ NameOf(project') # <<>> /\ NameOf(project') # NameOf(project))
       => FetchesHistoryOf(NameOf(project'))]_vars

\* two selections made, the second of the project whose name has "&" and "/"
C19_Witness ==
    /\ project = ProjectHydro
    /\ urls = <<<<"/","h","i","s","t","o","r","y","/","A","l","p","h","a","%","2","0","S","o","l","a","r">>, <<"/","h","i","s","t","o","r","y","/","R","%","2","6","D","%","2","F","H","y","d","r","o">>>>
    /\ Cardinality(gets) = 2

\* C19 as stated: every change of the project shown to another project issues
\* a GET /history for its resolved name
C19_EveryChangeIsFetched ==
    [][(project' # project /\ project' # NoProject)
       => FetchesHistoryOf(NameOf(project'))]_vars

-----------------------------------------------------------------------------
(* fetchData of the Home page (page.tsx:19-35, 334-355, part_000:22-40) *)

MaxRefresh == 3

\* the versions of the page: the early one (page.tsx:5-77), the one with the
\* login (page.tsx:270-374) and part_000
HomeVariants == {"page.tsx:19", "page.tsx", "part_000"}

\* fetchData of the early version sets neither loading nor status
\* (page.tsx:19-35)
SetsLoading(variant) == variant # "page.tsx:19"

\* the GETs of one fetchData in the order it awaits them, in each version of
\* the page (page.tsx:21-28, 337-348, part_000:25-31)
FetchOrder(variant) ==
    IF variant = "page.tsx" THEN <<"stats", "projects", "columns">>
    ELSE <<"projects", "columns", "stats">>

\* the status after the catch: set by setStatus (page.tsx:352, part_000:37),
\* left as it was where the catch only logs (page.tsx:32-34)
FetchError(variant) ==
    IF variant = "page.tsx" THEN "Error fetching data. Is the backend running?"
    ELSE IF variant = "part_000" THEN "Error fetching data from Google."
    ELSE home.status

\* the GETs a fetchData has issued when it awaits its n-th
IssuedUpTo(variant, n) == {FetchOrder(variant)[i] : i \in 1..n}

\* fetchData() up to its first await: called by the mount or auth effect and by
\* the refresh button (page.tsx:287, 334-337, 497; part_000:19, 22-25, 75)
FetchData ==
    /\ Cardinality(calls) + Cardinality(ended) < MaxRefresh
    /\ home' = [home EXCEPT !.loading = SetsLoading(home.variant) \/ @]
    /\ calls' = calls \cup {[id |-> Cardinality(calls) + Cardinality(ended) + 1, at |-> 1]}
    /\ UNCHANGED <<viewVars, netVars, countVars, readVars, aggVars, detailVars, authVars, pageVars, ended>>

\* the state after the setter that follows an awaited GET; a stats response
\* that carries an error sets nothing (page.tsx:338-349, part_000:26-34)
AfterResponse(c, error) ==
    LET what == FetchOrder(home.variant)[c.at]
    IN IF what = "stats" THEN (IF error THEN home ELSE [home EXCEPT !.stats = c.id])
       ELSE IF what = "projects" THEN [home EXCEPT !.projects = c.id]
       ELSE [home EXCEPT !.columns = c.id]

\* the awaited GET of an execution resolves: its setter runs and the next GET
\* is issued, or, after the third, loading is cleared
\* (page.tsx:337-349, 354; part_000:25-34, 39)
GetResolves(c, error) ==
    /\ c \in calls
    /\ error => FetchOrder(home.variant)[c.at] = "stats"
    /\ IF c.at < 3
       THEN /\ home' = AfterResponse(c, error)
            /\ calls' = (calls \ {c}) \cup {[id |-> c.id, at |-> c.at + 1]}
            /\ UNCHANGED ended
       ELSE /\ home' = [AfterResponse(c, error) EXCEPT
                          !.loading = ~SetsLoading(home.variant) /\ @]
            /\ calls' = calls \ {c}
            /\ ended' = ended \cup {[id |-> c.id, issued |-> IssuedUpTo(home.variant, 3),
                                     failed |-> FALSE]}
    /\ UNCHANGED <<viewVars, netVars, countVars, readVars, aggVars, detailVars, authVars, pageVars>>

\* the awaited GET rejects: the catch sets the status, no further GET is
\* issued, loading is cleared (page.tsx:350-354, part_000:35-39)
GetRejects(c) ==
    /\ c \in calls
    /\ home' = [home EXCEPT !.status = FetchError(home.variant),
                             !.loading = ~SetsLoading(home.variant) /\ @]
    /\ calls' = calls \ {c}
    /\ ended' = ended \cup {[id |-> c.id, issued |-> IssuedUpTo(home.variant, c.at),
                             failed |-> TRUE]}
    /\ UNCHANGED <<viewVars, netVars, countVars, readVars, aggVars, detailVars, authVars, pageVars>>

\* the page of either version before its first fetchData
InitHome ==
    /\ history = <<>> /\ headers = <<>> /\ loading = FALSE
    /\ modifiedRows = {} /\ savingRows = {}
    /\ showForm = FALSE /\ formData = EmptyForm
    /\ serverRows = <<>>
    /\ IdleNet /\ IdleCounts /\ IdleCell /\ IdleAgg /\ IdleDetail /\ IdleAuth /\ IdlePage
    /\ home \in {[NoHome EXCEPT !.variant = v] : v \in HomeVariants}
    /\ calls = {} /\ ended = {}

NextHome ==
    \/ FetchData
    \/ \E c \in calls, error \in BOOLEAN : GetResolves(c, error)
    \/ \E c \in calls : GetRejects(c)

SpecHome == InitHome /\ [][NextHome]_vars

-----------------------------------------------------------------------------
(* Properties of fetchData *)

\* C20: every fetchData that has ended has issued the three GETs, stats,
\* projects and columns, whether or not one of them failed
C20_EveryRefreshIssuesAllThree ==
    \A e \in ended : e.issued = {"stats", "projects", "columns"}

\* an execution in which no GET fails issues the three GETs
C20_UnfailedProbe ==
    \A e \in ended : ~e.failed => e.issued = {"stats", "projects", "columns"}

\* C21: once a fetchData has ended on a rejected request, the page shows a
\* status message and its loading flag is not left set by it
C21_FailedFetchLeavesStatus ==
    (calls = {} /\ \E e \in ended : e.failed) =>
        home.status # "" /\ ~home.loading

\* the same for the two later versions of the page
C21_LaterVersionsProbe ==
    (home.variant # "page.tsx:19" /\ calls = {} /\ \E e \in ended : e.failed) =>
        home.status # "" /\ ~home.loading

-----------------------------------------------------------------------------
(* handleAuth of the login forms (page.tsx:293-326, Auth.tsx:16-34) *)

MaxAuths == 2

S_MAIL_DOMAIN == <<"@","p","s","p","c","l",".","i","n">>
S_FIREBASE_PREFIX == <<"F","i","r","e","b","a","s","e",":"," ">>
S_CODE_IN_USE == <<"a","u","t","h","/","e","m","a","i","l","-","a","l","r","e","a","d","y","-","i","n","-","u","s","e">>
S_CODE_CREDENTIAL == <<"a","u","t","h","/","i","n","v","a","l","i","d","-","c","r","e","d","e","n","t","i","a","l">>
S_ALREADY_REGISTERED == <<"I","D"," ","a","l","r","e","a","d","y"," ","r","e","g","i","s","t","e","r","e","d","."," ","P","l","e","a","s","e"," ","L","o","g","i","n",".">>
S_INVALID_LOGIN == <<"I","n","v","a","l","i","d"," ","I","D"," ","o","r"," ","P","a","s","s","w","o","r","d",".">>
S_NOT_AUTHORIZED == <<"E","m","p","l","o","y","e","e"," ","I","D"," ","n","o","t"," ","a","u","t","h","o","r","i","z","e","d",".">>

\* what the identity provider and axios reject with
ErrInUse == [code |-> S_CODE_IN_USE, message |-> <<"F","i","r","e","b","a","s","e",":"," ","E","r","r","o","r"," ","(","a","u","t","h","/","e","m","a","i","l","-","a","l","r","e","a","d","y","-","i","n","-","u","s","e",")",".">>]
ErrCredential == [code |-> S_CODE_CREDENTIAL, message |-> <<"F","i","r","e","b","a","s","e",":"," ","E","r","r","o","r"," ","(","a","u","t","h","/","i","n","v","a","l","i","d","-","c","r","e","d","e","n","t","i","a","l",")",".">>]
ErrWeakPassword ==
    [code |-> <<"a","u","t","h","/","w","e","a","k","-","p","a","s","s","w","o","r","d">>,
     message |-> <<"F","i","r","e","b","a","s","e",":"," ","P","a","s","s","w","o","r","d"," ","s","h","o","u","l","d"," ","b","e"," ","a","t"," ","l","e","a","s","t"," ","6"," ","c","h","a","r","a","c","t","e","r","s"," ","(","a","u","t","h","/","w","e","a","k","-","p","a","s","s","w","o","r","d",")",".">>]
ErrNetwork == [code |-> <<"E","R","R","_","N","E","T","W","O","R","K">>, message |-> <<"N","e","t","w","o","r","k"," ","E","r","r","o","r">>]

\* new Error(message)
NewError(message) == [code |-> Undefined, message |-> message]

NoError == [code |-> Undefined, message |-> Undefined]

\* the rejections of each awaited call
RejectionsOf(kind) ==
    IF kind = "signin" THEN {ErrCredential}
    ELSE IF kind = "create" THEN {ErrInUse, ErrWeakPassword}
    ELSE {ErrNetwork}

\* the error field of a verify response that does not allow the id: absent, or
\* the backend's text
VerifyErrors == {Undefined, <<"N","o","t"," ","o","n"," ","t","h","e"," ","e","m","p","l","o","y","e","e"," ","l","i","s","t">>}

\* what is typed as the employee id
EmpIds == {<<"7">>, <<" ","7">>, <<"8">>}

AuthForms == {"page.tsx", "Auth.tsx"}

\* ${empId.trim()}@pspcl.in (page.tsx:299, Auth.tsx:20)
Email(empId) == TrimEnd(TrimStart(empId)) \o S_MAIL_DOMAIN

\* the message the catch sets (page.tsx:315-324, Auth.tsx:30-32)
AuthMessage(form, err) ==
    IF form = "page.tsx" /\ err.code = S_CODE_IN_USE THEN S_ALREADY_REGISTERED
    ELSE IF form = "page.tsx" /\ err.code = S_CODE_CREDENTIAL THEN S_INVALID_LOGIN
    ELSE RemoveFirst(err.message, S_FIREBASE_PREFIX)

NoRun == [view |-> "none", empId |-> <<>>, email |-> <<>>, calls |-> <<>>,
          verify |-> "none", err |-> NoError]

Nothing == [kind |-> "none", arg |-> <<>>]

\* a form as it is first rendered (page.tsx:260-265, Auth.tsx:10-14)
NewForm(form) ==
    [form |-> form, authView |-> "login", empId |-> <<>>, authError |-> <<>>,
     authLoading |-> FALSE, await |-> Nothing, run |-> NoRun, n |-> 0]

\* the link under the form: it switches the view, and on the page it also
\* clears the error and the id (page.tsx:441-446, Auth.tsx:53)
SetAuthView ==
    /\ auth' = [auth EXCEPT !.authView = IF @ = "login" THEN "register" ELSE "login",
                             !.authError = IF auth.form = "page.tsx" THEN <<>> ELSE @,
                             !.empId = IF auth.form = "page.tsx" THEN <<>> ELSE @]
    /\ UNCHANGED <<viewVars, netVars, countVars, readVars, aggVars, detailVars, homeVars, pageVars>>

\* typing into the Employee ID field (page.tsx:412, Auth.tsx:47)
SetEmpId(id) ==
    /\ id # auth.empId
    /\ auth' = [auth EXCEPT !.empId = id]
    /\ UNCHANGED <<viewVars, netVars, countVars, readVars, aggVars, detailVars, homeVars, pageVars>>

\* the call the handler awaits next, added to the calls of the run
Issue(a, kind, arg) ==
    [a EXCEPT !.await = [kind |-> kind, arg |-> arg],
              !.run.calls = Append(@, [kind |-> kind, arg |-> arg])]

\* the catch, and setAuthLoading(false) after it (page.tsx:315-325, Auth.tsx:30-33)
Caught(a, err) ==
    [a EXCEPT !.authError = AuthMessage(a.form, err), !.authLoading = FALSE,
              !.await = Nothing, !.run.err = err]

\* handleAuth up to its first await; the submit button is disabled while
\* authLoading, and the field is required (page.tsx:293-306, Auth.tsx:16-26, 47-49)
HandleAuth ==
    /\ ~auth.authLoading
    /\ auth.empId # <<>>
    /\ auth.n < MaxAuths
    /\ LET started == [auth EXCEPT !.authError = <<>>, !.authLoading = TRUE, !.n = @ + 1,
                                   !.run = [NoRun EXCEPT !.view = auth.authView,
                                                         !.empId = auth.empId,
                                                         !.email = Email(auth.empId)]]
       IN auth' = IF auth.authView = "login"
                  THEN Issue(started, "signin", Email(auth.empId))
                  ELSE Issue(started, "verify", auth.empId)
    /\ UNCHANGED <<viewVars, netVars, countVars, readVars, aggVars, detailVars, homeVars, pageVars>>

\* GET /verify-employee answers: allowed, the account is created next; not
\* allowed, an Error is thrown (page.tsx:306-313, Auth.tsx:26-28)
VerifyAnswers(allowed, error) ==
    /\ auth.await.kind = "verify"
    /\ auth' = IF allowed
               THEN Issue([auth EXCEPT !.run.verify = "allowed"], "create", auth.run.email)
               ELSE Caught([auth EXCEPT !.run.verify = "denied"],
                           NewError(OrElse(error, S_NOT_AUTHORIZED)))
    /\ UNCHANGED <<viewVars, netVars, countVars, readVars, aggVars, detailVars, homeVars, pageVars>>

\* signIn or createUser resolves (page.tsx:303, 313, 325; Auth.tsx:24, 28, 33)
AuthResolves ==
    /\ auth.await.kind \in {"signin", "create"}
    /\ auth' = [auth EXCEPT !.authLoading = FALSE, !.await = Nothing]
    /\ UNCHANGED <<viewVars, netVars, countVars, readVars, aggVars, detailVars, homeVars, pageVars>>

\* the awaited call rejects (page.tsx:315-325, Auth.tsx:30-33)
AuthRejects(err) ==
    /\ auth.await.kind # "none"
    /\ err \in RejectionsOf(auth.await.kind)
    /\ auth' = Caught([auth EXCEPT !.run.verify =
                          IF auth.await.kind = "verify" THEN "failed" ELSE @], err)
    /\ UNCHANGED <<viewVars, netVars, countVars, readVars, aggVars, detailVars, homeVars, pageVars>>

InitAuth ==
    /\ history = <<>> /\ headers = <<>> /\ loading = FALSE
    /\ modifiedRows = {} /\ savingRows = {}
    /\ showForm = FALSE /\ formData = EmptyForm
    /\ serverRows = <<>>
    /\ IdleNet /\ IdleCounts /\ IdleCell /\ IdleAgg /\ IdleDetail /\ IdleHome /\ IdlePage
    /\ auth \in {NewForm(f) : f \in AuthForms}

NextAuth ==
    \/ SetAuthView
    \/ \E id \in EmpIds : SetEmpId(id)
    \/ HandleAuth
    \/ \E allowed \in BOOLEAN, error \in VerifyErrors : VerifyAnswers(allowed, error)
    \/ AuthResolves
    \/ \E err \in {ErrInUse, ErrCredential, ErrWeakPassword, ErrNetwork} : AuthRejects(err)

SpecAuth == InitAuth /\ [][NextAuth]_vars

-----------------------------------------------------------------------------
(* Properties of handleAuth *)

\* the message an error is to be shown as: fixed for the two known codes, else
\* the error's own message without the prefix "Firebase: "
ShownAs(err) ==
    IF Includes(err.code, <<"e","m","a","i","l","-","a","l","r","e","a","d","y","-","i","n","-","u","s","e">>) THEN <<"I","D"," ","a","l","r","e","a","d","y"," ","r","e","g","i","s","t","e","r","e","d","."," ","P","l","e","a","s","e"," ","L","o","g","i","n",".">>
    ELSE IF Includes(err.code, <<"i","n","v","a","l","i","d","-","c","r","e","d","e","n","t","i","a","l">>) THEN <<"I","n","v","a","l","i","d"," ","I","D"," ","o","r"," ","P","a","s","s","w","o","r","d",".">>
    ELSE IF SubSeq(err.message, 1, 10) = <<"F","i","r","e","b","a","s","e",":"," ">> THEN SubSeq(err.message, 11, Len(err.message))
    ELSE err.message

\* the step in which the handler finishes on an error
FailsAuth == auth.await.kind # "none" /\ auth'.await.kind = "none" /\ auth'.run.err # NoError

\* C22: when handleAuth finishes on an error, authError is the fixed message
\* of the error's code, or the error's message without "Firebase: ", and
\* authLoading is false, on either form
C22_AuthErrorsAreMapped ==
    [][FailsAuth => (auth'.authError = ShownAs(auth'.run.err) /\ ~auth'.authLoading)]_vars

\* the same on the form of page.tsx alone
C22_PageFormProbe ==
    [][(FailsAuth /\ auth.form = "page.tsx")
       => (auth'.authError = ShownAs(auth'.run.err) /\ ~auth'.authLoading)]_vars

\* authLoading is set exactly while a call of the handler is awaited
C22_LoadingProbe ==
    auth.form # "none" => (auth.authLoading <=> auth.await.kind # "none")

\* the calls of the handler under way or just finished, by kind
CallsOf(kind) == {i \in 1..Len(auth.run.calls) : auth.run.calls[i].kind = kind}

\* the part of an e-mail address before "@pspcl.in"
LocalPart(email) == SubSeq(email, 1, Len(email) - Len(S_MAIL_DOMAIN))

\* the creation calls of a run follow a verification of an id that was allowed,
\* SameId(verified, local) saying when the id verified and the id of the
\* account e-mail count as the same
CreationFollowsVerification(SameId(_, _)) ==
    \A c \in CallsOf("create") :
        /\ auth.run.verify = "allowed"
        /\ \E v \in CallsOf("verify") :
              /\ v < c
              /\ SameId(auth.run.calls[v].arg, LocalPart(auth.run.calls[c].arg))

\* a verification that was refused or failed issues no creation call and
\* leaves an error, and a login calls neither verify nor create
RefusalAndLogin ==
    /\ auth.run.verify \in {"denied", "failed"} =>
          /\ CallsOf("create") = {}
          /\ auth.run.err # NoError
    /\ auth.run.view = "login" => CallsOf("verify") = {} /\ CallsOf("create") = {}
    /\ auth.run.view = "register" => CallsOf("signin") = {}

\* C23: an account is created only after GET /verify-employee has allowed the
\* id as it was typed, and the account e-mail is formed from that id with the
\* blanks around it removed; a refused or failed verification issues no
\* creation call and leaves an error; a login never calls verify
C23_CreateOnlyAfterAllowedVerify ==
    auth.form # "none" =>
        /\ CreationFollowsVerification(LAMBDA id, local : TrimEnd(TrimStart(id)) = local)
        /\ RefusalAndLogin

\* an account created for the id typed with a blank before it, and a refused
\* verification behind it
C23_Witness ==
    /\ auth.form # "none" /\ auth.n = 2
    /\ auth.run.verify = "allowed" /\ auth.run.empId = <<" ","7">>
    /\ CallsOf("create") # {} /\ auth.await.kind = "none" /\ auth.run.err = NoError

\* C23 as stated: the id that was verified is the very id that forms the
\* account e-mail
C23_VerifiedIdFormsTheEmail ==
    auth.form # "none" =>
        /\ CreationFollowsVerification(LAMBDA id, local : id = local)
        /\ RefusalAndLogin

\* ---------------------------------------------------------------------------
\* The month selection of the Home page (page.tsx:275-278, 334-345, 535-541)
\* ---------------------------------------------------------------------------

MaxStatsFetches == 3

\* an answer without the field available_months
NoMonths == <<Undefined>>

\* months || other (page.tsx:339)
MonthsOr(months, other) == IF months = NoMonths \/ months = <<>> THEN other ELSE months

\* what GET /stats may answer: its available_months, or an error field
StatsAnswers ==
    { [error |-> Undefined, available_months |-> <<<<"A","p","r","-","2","4">>, <<"M","a","y","-","2","4">>, <<"T","o","t","a","l">>>>],
      [error |-> Undefined, available_months |-> <<<<"P","r","e","v","i","o","u","s"," ","Y","e","a","r"," ","T","o","t","a","l">>, <<"M","a","y","-","2","4">>, <<"A","p","r","-","2","4">>>>],
      [error |-> Undefined, available_months |-> <<<<"J","u","n","-","2","4">>>>],
      [error |-> Undefined, available_months |-> <<<<"T","o","t","a","l">>>>],
      [error |-> Undefined, available_months |-> <<>>],
      [error |-> Undefined, available_months |-> NoMonths],
      [error |-> <<"N","o"," ","d","a","t","a"," ","u","p","l","o","a","d","e","d">>, available_months |-> NoMonths] }

\* allMonths.filter(m => !m.includes("Total") && !m.includes("Previous Year"))
\* (page.tsx:340-342)
RECURSIVE FilterMonths(_)
FilterMonths(allMonths) ==
    IF allMonths = <<>> THEN <<>>
    ELSE LET m == Head(allMonths)
         IN  (IF ~Includes(m, <<"T","o","t","a","l">>) /\ ~Includes(m, <<"P","r","e","v","i","o","u","s"," ","Y","e","a","r">>) THEN <<m>> ELSE <<>>)
                 \o FilterMonths(Tail(allMonths))

\* the page as first rendered (page.tsx:275-278), with the stats requests of
\* the fetchData calls under way and the answer taken last
NewMonths ==
    [view |-> "months", available_months |-> <<>>, selectedMonth |-> <<>>,
     pending |-> 0, n |-> 0, fresh |-> FALSE,
     answer |-> [error |-> Undefined, available_months |-> NoMonths]]

\* fetchData up to its first await: GET /stats is issued (page.tsx:334-337)
FetchStats ==
    /\ page.view = "months"
    /\ page.n < MaxStatsFetches
    /\ page' = [page EXCEPT !.n = @ + 1, !.pending = @ + 1, !.fresh = FALSE]
    /\ UNCHANGED <<viewVars, netVars, countVars, readVars, aggVars, detailVars, homeVars, authVars>>

\* fetchData after GET /stats has answered (page.tsx:338-345); the requests
\* for projects and columns that follow leave the months alone
StatsResolves(data) ==
    /\ page.view = "months"
    /\ page.pending > 0
    /\ LET taken == [page EXCEPT !.pending = @ - 1, !.fresh = TRUE, !.answer = data]
       IN  IF ~Truthy(data.error)
           THEN LET allMonths == MonthsOr(data.available_months, <<>>)
                    filtered == FilterMonths(allMonths)
                IN  page' = [taken EXCEPT
                        !.available_months = filtered,
                        !.selectedMonth = IF Len(filtered) > 0 THEN filtered[Len(filtered)] ELSE @]
           ELSE page' = taken
    /\ UNCHANGED <<viewVars, netVars, countVars, readVars, aggVars, detailVars, homeVars, authVars>>

\* GET /stats fails: the catch sets the status only (page.tsx:350-353)
StatsRejects ==
    /\ page.view = "months"
    /\ page.pending > 0
    /\ page' = [page EXCEPT !.pending = @ - 1, !.fresh = FALSE]
    /\ UNCHANGED <<viewVars, netVars, countVars, readVars, aggVars, detailVars, homeVars, authVars>>

\* the month select offers stats.available_months (page.tsx:535-541)
SetSelectedMonth(m) ==
    /\ page.view = "months"
    /\ \E i \in 1..Len(page.available_months) : page.available_months[i] = m
    /\ m # page.selectedMonth
    /\ page' = [page EXCEPT !.selectedMonth = m, !.fresh = FALSE]
    /\ UNCHANGED <<viewVars, netVars, countVars, readVars, aggVars, detailVars, homeVars, authVars>>

InitMonths ==
    /\ history = <<>> /\ headers = <<>> /\ loading = FALSE
    /\ modifiedRows = {} /\ savingRows = {}
    /\ showForm = FALSE /\ formData = EmptyForm
    /\ serverRows = <<>>
    /\ IdleNet /\ IdleCounts /\ IdleCell /\ IdleAgg /\ IdleDetail /\ IdleHome /\ IdleAuth
    /\ page = NewMonths

NextMonths ==
    \/ FetchStats
    \/ \E data \in StatsAnswers : StatsResolves(data)
    \/ StatsRejects
    \/ \E i \in 1..Len(page.available_months) : SetSelectedMonth(page.available_months[i])

SpecMonths == InitMonths /\ [][NextMonths]_vars

\* ---------------------------------------------------------------------------
\* Properties of the month selection
\* ---------------------------------------------------------------------------

\* the server's months that name neither a total nor the previous year, in the
\* server's order
RECURSIVE PlainMonths(_)
PlainMonths(list) ==
    IF list = <<>> THEN <<>>
    ELSE IF \E i \in 1..Len(Head(list)), j \in 1..Len(Head(list)) :
               \/ SubSeq(Head(list), i, j) = <<"T","o","t","a","l">>
               \/ SubSeq(Head(list), i, j) = <<"P","r","e","v","i","o","u","s"," ","Y","e","a","r">>
         THEN PlainMonths(Tail(list))
         ELSE <<Head(list)>> \o PlainMonths(Tail(list))

\* a stats answer without an error field has just been taken
RefreshedStats ==
    /\ page.view = "months" /\ page.fresh /\ page.answer.error = Undefined

\* C24: after a successful stats fetch stats.available_months holds the
\* server's plain months in the server's order; selectedMonth is always empty
\* or one of stats.available_months, and right after a refresh it is the last
\* of them
C24_SelectedMonthIsListed ==
    page.view = "months" =>
        /\ RefreshedStats =>
              /\ page.available_months = PlainMonths(MonthsOr(page.answer.available_months, <<>>))
              /\ page.available_months # <<>> =>
                    page.selectedMonth = page.available_months[Len(page.available_months)]
        /\ page.selectedMonth = <<>> \/ page.selectedMonth \in Range(page.available_months)

\* the same without the membership of selectedMonth
C24_FilteredMonthsProbe ==
    RefreshedStats =>
        /\ page.available_months = PlainMonths(MonthsOr(page.answer.available_months, <<>>))
        /\ page.available_months # <<>> =>
              page.selectedMonth = page.available_months[Len(page.available_months)]

\* ---------------------------------------------------------------------------
\* The report-column selection (page.tsx:270-271, 357-374, 606-616;
\* ReportBuilder.tsx:11-28, 35-41)
\* ---------------------------------------------------------------------------

MaxColumnSteps == 5

\* what GET /columns may answer
ColumnCatalogs ==
    { <<"Name", "Capacity", "State">>, <<"Name", "State">>, <<"State", "Name">>, <<>> }

\* the components holding a column selection; ReportBuilder has no Select All
ReportForms == {"page.tsx", "ReportBuilder.tsx"}

\* selectedCols.filter(c => c !== col)
RECURSIVE Unselect(_, _)
Unselect(cols, col) ==
    IF cols = <<>> THEN <<>>
    ELSE (IF Head(cols) # col THEN <<Head(cols)>> ELSE <<>>) \o Unselect(Tail(cols), col)

\* the report tab as first rendered, with the catalog of a first fetch
NewReport(form, columns) ==
    [view |-> "report", form |-> form, columns |-> columns, selectedCols |-> <<>>,
     loading |-> FALSE, sent |-> <<>>, alerts |-> 0, n |-> 0]

\* the onChange of a column's checkbox (page.tsx:615, ReportBuilder.tsx:39)
ToggleColumn(col) ==
    /\ page.view = "report"
    /\ page.n < MaxColumnSteps
    /\ \E i \in 1..Len(page.columns) : page.columns[i] = col
    /\ page' = [page EXCEPT
           !.n = @ + 1,
           !.selectedCols = IF col \in Range(@) THEN Unselect(@, col) ELSE Append(@, col)]
    /\ UNCHANGED <<viewVars, netVars, countVars, readVars, aggVars, detailVars, homeVars, authVars>>

\* the Select All button (page.tsx:606)
SelectAll ==
    /\ page.view = "report" /\ page.form = "page.tsx"
    /\ page.n < MaxColumnSteps
    /\ page' = [page EXCEPT !.n = @ + 1, !.selectedCols = page.columns]
    /\ UNCHANGED <<viewVars, netVars, countVars, readVars, aggVars, detailVars, homeVars, authVars>>

\* a data refresh replaces the catalog: setColumns(cRes.data.columns || [])
\* (page.tsx:348-349), handed to ReportBuilder as its prop columns
SetColumns(columns) ==
    /\ page.view = "report"
    /\ page.n < MaxColumnSteps
    /\ columns # page.columns
    /\ page' = [page EXCEPT !.n = @ + 1, !.columns = columns]
    /\ UNCHANGED <<viewVars, netVars, countVars, readVars, aggVars, detailVars, homeVars, authVars>>

\* downloadReport up to its await: an alert when nothing is selected, else
\* POST /generate-report with selectedCols as its body (page.tsx:357-362,
\* ReportBuilder.tsx:14-18); the button is disabled while loading
DownloadReport ==
    /\ page.view = "report"
    /\ ~page.loading
    /\ page.n < MaxColumnSteps
    /\ IF Len(page.selectedCols) = 0
       THEN page' = [page EXCEPT !.n = @ + 1, !.alerts = @ + 1]
       ELSE page' = [page EXCEPT !.n = @ + 1, !.loading = TRUE, !.sent = page.selectedCols]
    /\ UNCHANGED <<viewVars, netVars, countVars, readVars, aggVars, detailVars, homeVars, authVars>>

\* downloadReport after its await, the request answered or failed
\* (page.tsx:363-373, ReportBuilder.tsx:19-27)
ReportEnds(failed) ==
    /\ page.view = "report"
    /\ page.loading
    /\ page' = [page EXCEPT !.loading = FALSE, !.sent = <<>>,
                            !.alerts = IF failed /\ page.form = "ReportBuilder.tsx" THEN @ + 1 ELSE @]
    /\ UNCHANGED <<viewVars, netVars, countVars, readVars, aggVars, detailVars, homeVars, authVars>>

InitReport ==
    /\ history = <<>> /\ headers = <<>> /\ loading = FALSE
    /\ modifiedRows = {} /\ savingRows = {}
    /\ showForm = FALSE /\ formData = EmptyForm
    /\ serverRows = <<>>
    /\ IdleNet /\ IdleCounts /\ IdleCell /\ IdleAgg /\ IdleDetail /\ IdleHome /\ IdleAuth
    /\ page \in {NewReport(form, <<"Name", "Capacity", "State">>) : form \in ReportForms}

NextReport ==
    \/ \E i \in 1..Len(page.columns) : ToggleColumn(page.columns[i])
    \/ SelectAll
    \/ \E columns \in ColumnCatalogs : SetColumns(columns)
    \/ DownloadReport
    \/ \E failed \in BOOLEAN : ReportEnds(failed)

SpecReport == InitReport /\ [][NextReport]_vars

\* ---------------------------------------------------------------------------
\* Properties of the report-column selection
\* ---------------------------------------------------------------------------

\* no entry of the list occurs twice
DuplicateFree(list) == \A i, j \in 1..Len(list) : list[i] = list[j] => i = j

\* the entries of the list stand in the order they have in the catalog
InOrderOf(catalog, list) ==
    \A i, j \in 1..Len(list) :
        i < j => \E a, b \in 1..Len(catalog) :
                    a < b /\ catalog[a] = list[i] /\ catalog[b] = list[j]

\* a POST /generate-report is on its way
SendingReport == page.view = "report" /\ page.loading

\* C25: the column list sent to POST /generate-report is free of duplicates,
\* holds only columns of the current catalog and keeps the catalog's order
C25_SentColumnsFollowCatalog ==
    SendingReport =>
        /\ DuplicateFree(page.sent)
        /\ Range(page.sent) \subseteq Range(page.columns)
        /\ InOrderOf(page.columns, page.sent)

\* the list sent is free of duplicates and not empty
C25_DuplicateFreeProbe ==
    SendingReport => DuplicateFree(page.sent) /\ page.sent # <<>>

\* while the first catalog is the current one, the list sent keeps its order
C25_ClickOrderProbe ==
    (SendingReport /\ page.columns = <<"Name", "Capacity", "State">>) =>
        InOrderOf(page.columns, page.sent)

\* ---------------------------------------------------------------------------
\* Properties of handleCellChange: what an edit leaves alone
\* ---------------------------------------------------------------------------

\* the cells of row i that a step has changed
ChangedCells(i) == {h \in DOMAIN history'[i] : Get(history[i], h) # history'[i][h]}

\* the step is a handleCellChange
EditsCell == nEdits' = nEdits + 1

\* C26: an edit of a cell outside the resolved current-export, current-import,
\* MF and rate columns changes that cell alone and marks its row modified; no
\* edit changes another row or anything but history and modifiedRows
C26_OtherCellsAndRowsUntouched ==
    [][EditsCell =>
        LET e == lastEdit'
            rate == FindKey(headers, K_RATE)
            inputs == {FindKey(headers, K_EXP_CURR), FindKey(headers, K_IMP_CURR),
                       FindKey(headers, K_MF),
                       IF Truthy(rate) THEN rate ELSE FindKey(headers, K_TARIFF)}
        IN  /\ \A i \in 1..Len(history) : i # e.row => history'[i] = history[i]
            /\ Len(history') = Len(history)
            /\ modifiedRows' = modifiedRows \cup {e.row}
            /\ UNCHANGED <<headers, loading, savingRows, showForm, formData, netVars>>
            /\ history'[e.row][e.header] = e.value
            /\ e.header \notin inputs =>
                  ChangedCells(e.row) \subseteq {e.header}]_vars

\* C26 witness: an edit of the previous export reading of a fully resolved
\* ledger, after which the export difference is still the one stored before
C26_Witness ==
    LET k == ResolveKeys(headers)
    IN  /\ nEdits = 1
        /\ Truthy(k.kMF) /\ Truthy(k.kRate) /\ Truthy(k.kExpDiff)
        /\ lastEdit.header = k.kExpPrev
        /\ modifiedRows = {lastEdit.row}
        /\ history[lastEdit.row][k.kExpPrev] = lastEdit.value
        /\ history[lastEdit.row][k.kExpPrev] # serverRows[lastEdit.row][k.kExpPrev]
        /\ history[lastEdit.row][k.kExpDiff] = serverRows[lastEdit.row][k.kExpDiff]
        /\ history[lastEdit.row][k.kExpDiff] # V_EMPTY
        /\ \A i \in 1..Len(history) : i # lastEdit.row => history[i] = serverRows[i]

\* ---------------------------------------------------------------------------
\* The loading flag of the Home page, shared by fetchData and downloadReport
\* (page.tsx:274, 334-374, 497, 623-624; part_000:22-59, 75, 170-171)
\* ---------------------------------------------------------------------------

MaxReports == 2

\* the versions of the page whose fetchData sets the loading flag
LoadingVariants == {v \in HomeVariants : SetsLoading(v)}

\* the status downloadReport sets when it starts, succeeds and fails
ReportStatus(variant, phase) ==
    IF phase = "started"
    THEN (IF variant = "page.tsx" THEN "Generating Excel..." ELSE "Generating Report...")
    ELSE IF phase = "done" THEN "Download Complete!"
    ELSE IF variant = "page.tsx" THEN "Report generation failed."
    ELSE "Error generating report."

\* the report tab with some columns selected, and the POST /generate-report
\* requests on their way
NewLoading == [view |-> "loading", reports |-> 0, n |-> 0]

\* downloadReport up to its await, with columns selected; its button is
\* disabled while loading (page.tsx:357-362, 623-624; part_000:42-47, 170-171)
ReportStarts ==
    /\ page.view = "loading"
    /\ ~home.loading
    /\ page.n < MaxReports
    /\ home' = [home EXCEPT !.loading = TRUE, !.status = ReportStatus(home.variant, "started")]
    /\ page' = [page EXCEPT !.reports = @ + 1, !.n = @ + 1]
    /\ UNCHANGED <<viewVars, netVars, countVars, readVars, aggVars, detailVars, authVars, calls, ended>>

\* downloadReport after its await (page.tsx:363-373, part_000:48-58)
ReportFinishes(failed) ==
    /\ page.view = "loading"
    /\ page.reports > 0
    /\ home' = [home EXCEPT
           !.loading = FALSE,
           !.status = ReportStatus(home.variant, IF failed THEN "failed" ELSE "done")]
    /\ page' = [page EXCEPT !.reports = @ - 1]
    /\ UNCHANGED <<viewVars, netVars, countVars, readVars, aggVars, detailVars, authVars, calls, ended>>

InitLoading ==
    /\ history = <<>> /\ headers = <<>> /\ loading = FALSE
    /\ modifiedRows = {} /\ savingRows = {}
    /\ showForm = FALSE /\ formData = EmptyForm
    /\ serverRows = <<>>
    /\ IdleNet /\ IdleCounts /\ IdleCell /\ IdleAgg /\ IdleDetail /\ IdleAuth
    /\ home \in {[NoHome EXCEPT !.variant = v] : v \in LoadingVariants}
    /\ calls = {} /\ ended = {}
    /\ page = NewLoading

NextLoading ==
    \/ FetchData
    \/ \E c \in calls, error \in BOOLEAN : GetResolves(c, error)
    \/ \E c \in calls : GetRejects(c)
    \/ ReportStarts
    \/ \E failed \in BOOLEAN : ReportFinishes(failed)

SpecLoading == InitLoading /\ [][NextLoading]_vars

\* ---------------------------------------------------------------------------
\* Properties of the shared loading flag
\* ---------------------------------------------------------------------------

\* the requests of fetchData and downloadReport that are on their way
InFlight == Cardinality(calls) + page.reports

\* C27: loading is true exactly while a request of fetchData or of
\* downloadReport is on its way
C27_LoadingWhileInFlight ==
    page.view = "loading" => (home.loading <=> InFlight > 0)

\* loading is false when no request is on its way, and true while exactly one
\* execution has ever started
C27_NoneOrOneProbe ==
    page.view = "loading" =>
        /\ InFlight = 0 => ~home.loading
        /\ (InFlight = 1 /\ Cardinality(calls) + Cardinality(ended) + page.n = 1) => home.loading

\* ---------------------------------------------------------------------------
\* The ledger shown while the project changes (ProjectDetail.tsx:10-17, 34-60)
\* ---------------------------------------------------------------------------

\* the ledger the backend holds under a history path, each project having its
\* own
ServerLedger(url) ==
    IF url = HistoryPath(GetProjectName(ProjectAlpha)) THEN Ledger(ServerHeaders, L_TwoValid)
    ELSE IF url = HistoryPath(GetProjectName(ProjectHydro)) THEN Ledger(ServerHeaders, L_Fraction)
    ELSE Ledger(ServerHeaders, L_LastZero)

\* the path requested by a GET /history of the project selection, the requests
\* being numbered from 0 in the order of urls
PathOf(g) == urls[g.id + 1]

\* GET /history resolves with the data of the project it was issued for
\* (ProjectDetail.tsx:49-54, 57-59)
HistoryArrives(g) ==
    /\ g \in gets
    /\ gets' = gets \ {g}
    /\ history' = ServerLedger(PathOf(g))
    /\ headers' = ServerHeaders
    /\ modifiedRows' = {}
    /\ loading' = FALSE
    /\ UNCHANGED <<savingRows, showForm, formData>>
    /\ UNCHANGED <<puts, posts, dialogs, serverRows, countVars, readVars, sideVars>>

\* the component mounted with no project
InitSwitch ==
    /\ history = <<>> /\ headers = <<>> /\ loading = FALSE
    /\ modifiedRows = {} /\ savingRows = {}
    /\ showForm = FALSE /\ formData = EmptyForm
    /\ serverRows = <<>>
    /\ IdleNet /\ IdleCounts /\ IdleRead

NextSwitch ==
    \/ \E p \in ProjectRows \cup {NoProject} : SelectProject(p)
    \/ \E g \in gets : HistoryArrives(g)
    \/ \E g \in gets : HistoryEmptyOrFail(g)

SpecSwitch == InitSwitch /\ [][NextSwitch]_vars

\* ---------------------------------------------------------------------------
\* Properties of the ledger shown while the project changes
\* ---------------------------------------------------------------------------

\* a project with a name is selected and no GET /history is on its way
SettledOnProject ==
    /\ project # NoProject
    /\ NameOf(project) # <<>>
    /\ gets = {}

\* the ledger and headers shown are those the backend holds for the project
ShowsLedgerOf(p) ==
    /\ history = ServerLedger(S_HISTORY_PATH \o EncodeURIComponent(NameOf(p)))
    /\ headers = ServerHeaders

\* C28: once every GET /history has completed, the ledger and headers shown
\* are those of the project now selected, or none where its request brought no
\* data: never the ledger of another project
C28_ShownLedgerIsOfSelectedProject ==
    SettledOnProject => (ShowsLedgerOf(project) \/ (history = <<>> /\ headers = <<>>))

\* after the only request issued so far has answered with data, the ledger
\* shown is that of the project selected
C28_SingleRequestProbe ==
    (SettledOnProject /\ nGets = 1 /\ history # <<>>) => ShowsLedgerOf(project)

\* the ledger shown is never anything but empty or the ledger of a project
\* that was requested
C28_RequestedLedgersProbe ==
    history = <<>> \/ \E i \in 1..Len(urls) : history = ServerLedger(urls[i])

\* ---------------------------------------------------------------------------
\* Properties of handleAddNewSubmit: what follows the confirmation and the POST
\* ---------------------------------------------------------------------------

\* the step issues a POST /add-reading
IssuesPost == posts' \ posts # {}

\* the step is a handleAddNewSubmit that ends at the declined confirmation
DeclinesSubmit == nSubmits' = nSubmits + 1 /\ posts' = posts

\* the step is the end of a POST /add-reading, with the alert it shows
EndsPost(msg) == posts \ posts' # {} /\ dialogs'.kind = "alert" /\ dialogs'.msg = msg

\* the step issues a GET /history
IssuesReload == gets' \ gets # {}

\* C29: POST /add-reading is issued only by a submit that showed the
\* confirmation; the form is reset and closed and the history reloaded in the
\* step that ends a POST in success, and a reload or reset happens in no other
\* step; a declined confirmation and a failed POST leave formData, showForm,
\* history and modifiedRows as they were and issue no reload
C29_SubmitConfirmsThenReloadsOnSuccess ==
    [][/\ IssuesPost =>
              /\ nSubmits' = nSubmits + 1
              /\ dialogs'.kind = "confirm"
              /\ UNCHANGED <<formData, showForm, history, modifiedRows, gets>>
       /\ EndsPost("Added successfully!") =>
              /\ ~showForm'
              /\ formData' = EmptyForm
              /\ IssuesReload /\ loading'
       /\ IssuesReload => EndsPost("Added successfully!")
       /\ (formData' = EmptyForm /\ formData # EmptyForm) => EndsPost("Added successfully!")
       /\ (DeclinesSubmit \/ EndsPost("Error")) =>
              UNCHANGED <<formData, showForm, history, modifiedRows, gets, loading>>]_vars

\* C29 witness: a reading was added after a confirmed submit of a filled form:
\* the modal is closed, the form empty, the reload on its way, and the backend
\* holds one row more than the table shows
C29_Witness ==
    /\ nSubmits >= 1 /\ posts = {}
    /\ dialogs.kind = "alert" /\ dialogs.msg = "Added successfully!"
    /\ ~showForm /\ formData = EmptyForm
    /\ gets # {} /\ loading
    /\ history # <<>> /\ Len(serverRows) = Len(history) + 1

\* ---------------------------------------------------------------------------
\* Properties of the Aggregator: what its totals conserve
\* ---------------------------------------------------------------------------

\* the counts of the groups added up
RECURSIVE CountsOf(_)
CountsOf(groups) ==
    IF groups = <<>> THEN 0 ELSE Head(groups).count + CountsOf(Tail(groups))

\* the contracted sums of the groups added up
ContractedOf(groups) ==
    SumOfRecords([i \in 1..Len(groups) |-> groups[i].contracted], 1..Len(groups))

\* the monthly values accumulated over all records, before they are turned
\* into million units, added up
MonthlyValuesAddedUp ==
    LET G == GenCols(projects.cols)
        ms == MonthlyGroups(projects.rows, G, Len(projects.rows) * Len(G))
    IN SumOfRecords([i \in 1..Len(ms) |-> ms[i].value], 1..Len(ms))

====
